---------------------------- MODULE Spec2Model ----------------------------
(***************************************************************************)
(* Model of the whitecottagefloral site editor.                            *)
(*                                                                         *)
(*   - the template compiler: buildHTML (editor/server.js) and the build   *)
(*     script (build.js), character by character on strings;               *)
(*   - the publish pipeline: POST /api/publish and the data routes that    *)
(*     share its files (editor/server.js);                                 *)
(*   - the path resolver getValue / setValue (editor/server.js);           *)
(*   - the edit script that GET /api/preview injects into the page: its    *)
(*     edit mode, its listeners and the messages it posts to the editor.   *)
(*                                                                         *)
(* Strings are TLA+ strings; a position is a 1-based character index, and  *)
(* lastIndex keeps JavaScript's meaning (the number of characters before   *)
(* the place the next search starts).                                      *)
(***************************************************************************)
EXTENDS Integers, Sequences, FiniteSets, TLC

VARIABLES
    \* ---- template compiler (one call of buildHTML / one run of build.js)
    frags,        \* the template, as the list of fragments it is written from
    data,         \* the content tree
    html,         \* buildHTML's local `html` (build.js: `template`)
    pc,           \* position in buildHTML
    lastIndex,    \* eachRegex.lastIndex
    call,         \* 1: first compile of the inputs, 2: the same inputs again
    firstResult,  \* what the first compile returned (or that it threw)
    \* ---- publish pipeline
    previewFile,     \* data-preview.json
    productionFile,  \* data.json
    indexFile,       \* index.html written by build.js
    blobData,        \* blob data.json in the storage container
    blobIndex,       \* blob index.html in the storage container
    reqs,            \* the publish requests: position, locals, response
    edited,          \* whether the preview changed since the first publish began
    builds,          \* what build.js makes of each content of data.json
    \* ---- data routes
    served,          \* the last answer of a data route: route, status, file changed
    \* ---- path resolver
    content,         \* the tree getValue and setValue are called on
    resolved,        \* the last call: its arguments, the tree before it, its result
    \* ---- instrumented document
    editMode,        \* the edit script's editMode
    readyState,      \* document.readyState
    pending,         \* the DOMContentLoaded listeners waiting to run setupEditables
    doc,             \* what the edit script put into the page
    modals,          \* the text-edit modals opened so far
    last,            \* the last event and what it made the document do
    \* ---- deleting a portfolio image
    rendered,        \* the src of each portfolio image of the rendered page
    portfolioImages, \* the editor's portfolio.images
    received,        \* the last delete message and the array it met
    \* ---- reviews endpoint
    env,             \* GOOGLE_PLACES_API_KEY and GOOGLE_PLACE_ID of process.env
    asked,           \* what the external review API answered to the last request
    reviewsResponse, \* the last response of GET /api/google-reviews
    \* ---- the page in the browser: edit paths, script.js
    page,            \* the rendered lists and the edit paths derived for them
    carousel,        \* the testimonial carousel of script.js
    boot             \* the start of script.js: waiting for IMAGE_BASE_PATH

compileVars == <<frags, data, html, pc, lastIndex, call, firstResult>>
publishVars == <<previewFile, productionFile, indexFile, blobData, blobIndex,
                 reqs, edited, builds>>
vars == <<frags, data, html, pc, lastIndex, call, firstResult,
          previewFile, productionFile, indexFile, blobData, blobIndex,
          reqs, edited, builds, served, content, resolved,
          editMode, readyState, pending, doc, modals, last,
          rendered, portfolioImages, received,
          env, asked, reviewsResponse,
          page, carousel, boot>>

\* what the compiler, and what the publish handler, has no access to
pathVars == <<content, resolved>>
docVars == <<editMode, readyState, pending, doc, modals, last>>
deleteVars == <<rendered, portfolioImages, received>>
reviewVars == <<env, asked, reviewsResponse>>
scriptVars == <<page, carousel, boot>>
outsideCompile == <<publishVars, served, pathVars, docVars, deleteVars, reviewVars, scriptVars>>
outsidePublish == <<compileVars, served, pathVars, docVars, deleteVars, reviewVars, scriptVars>>
outsideDoc == <<compileVars, publishVars, served, pathVars, deleteVars, reviewVars, scriptVars>>

---------------------------------------------------------------------------
(* Strings                                                                 *)

\* s.substring(i-1, j): the characters i..j of s ("" when the range is empty)
Sub(s, i, j) == IF i > j THEN "" ELSE SubSeq(s, i, j)

\* s.startsWith(pat, i-1)
StartsAt(s, pat, i) ==
    /\ i >= 1
    /\ i + Len(pat) - 1 <= Len(s)
    /\ Sub(s, i, i + Len(pat) - 1) = pat

\* s.indexOf(pat, from-1) + 1: the first position >= from where pat occurs, 0
\* when it does not
IndexOfFrom(s, pat, from) ==
    LET hits == {i \in from..(Len(s) - Len(pat) + 1) :
                    Sub(s, i, i + Len(pat) - 1) = pat}
    IN  IF hits = {} THEN 0 ELSE CHOOSE i \in hits : \A j \in hits : i <= j

Contains(s, pat) == IndexOfFrom(s, pat, 1) # 0

\* the white space of \s and of String.prototype.trim
IsSpace(c) == c \in {" ", "\n", "\t"}

RECURSIVE TrimLeft(_)
TrimLeft(s) ==
    IF s # "" /\ IsSpace(Sub(s, 1, 1)) THEN TrimLeft(Sub(s, 2, Len(s))) ELSE s

RECURSIVE TrimRight(_)
TrimRight(s) ==
    IF s # "" /\ IsSpace(Sub(s, Len(s), Len(s)))
    THEN TrimRight(Sub(s, 1, Len(s) - 1)) ELSE s

\* s.trim()
Trim(s) == TrimRight(TrimLeft(s))

\* s.split('.')
RECURSIVE SplitDot(_)
SplitDot(s) ==
    LET i == IndexOfFrom(s, ".", 1)
    IN  IF i = 0 THEN <<s>>
        ELSE <<Sub(s, 1, i - 1)>> \o SplitDot(Sub(s, i + 1, Len(s)))

\* the letters the case-insensitive section pattern folds
UpperToLower ==
    [A |-> "a", B |-> "b", C |-> "c", D |-> "d", E |-> "e", I |-> "i",
     L |-> "l", N |-> "n", O |-> "o", S |-> "s", T |-> "t", U |-> "u"]

RECURSIVE ToLower(_)
ToLower(s) ==
    IF s = "" THEN ""
    ELSE IF Len(s) = 1
    THEN (IF s \in DOMAIN UpperToLower THEN UpperToLower[s] ELSE s)
    ELSE ToLower(Sub(s, 1, Len(s) \div 2))
         \o ToLower(Sub(s, Len(s) \div 2 + 1, Len(s)))

\* GetSubstitution for a string pattern (no capture groups): in the replacement
\* text $$ is a dollar sign, $& the matched text, $` the text before the match
\* and $' the text after it; any other $ stands for itself
RECURSIVE GetSubstitution(_, _, _, _)
GetSubstitution(repl, matched, before, after) ==
    LET i == IndexOfFrom(repl, "$", 1)
        n == IF i = 0 \/ i = Len(repl) THEN "" ELSE Sub(repl, i + 1, i + 1)
        rest == Sub(repl, i + 2, Len(repl))
    IN  IF i = 0 THEN repl
        ELSE Sub(repl, 1, i - 1) \o
             (CASE n = "$" -> "$" \o GetSubstitution(rest, matched, before, after)
                [] n = "&" -> matched \o GetSubstitution(rest, matched, before, after)
                [] n = "`" -> before \o GetSubstitution(rest, matched, before, after)
                [] n = "'" -> after \o GetSubstitution(rest, matched, before, after)
                [] OTHER -> "$" \o GetSubstitution(Sub(repl, i + 1, Len(repl)),
                                                    matched, before, after))

\* s.replace(pat, repl) for a string pat and a string repl: the first
\* occurrence only, the replacement text expanded by GetSubstitution
ReplaceFirst(s, pat, repl) ==
    LET i == IndexOfFrom(s, pat, 1)
        before == Sub(s, 1, i - 1)
        after == Sub(s, i + Len(pat), Len(s))
    IN  IF i = 0 THEN s
        ELSE before \o GetSubstitution(repl, pat, before, after) \o after

---------------------------------------------------------------------------
(* JSON values                                                             *)

Undef == [t |-> "undef"]
Null == [t |-> "null"]
Str(s) == [t |-> "str", v |-> s]
Num(n) == [t |-> "num", v |-> n]
Bool(b) == [t |-> "bool", v |-> b]
Obj(f) == [t |-> "obj", v |-> f]
Arr(q) == [t |-> "arr", v |-> q]

\* ToBoolean
Truthy(x) ==
    CASE x.t = "undef" -> FALSE
      [] x.t = "null" -> FALSE
      [] x.t = "str" -> x.v # ""
      [] x.t = "num" -> x.v # 0
      [] x.t = "bool" -> x.v
      [] OTHER -> TRUE

\* ToString, as String.prototype.replace applies it to what a callback returns
RECURSIVE ToStr(_)
RECURSIVE Join(_, _)
ToStr(x) ==
    CASE x.t = "undef" -> "undefined"
      [] x.t = "null" -> "null"
      [] x.t = "str" -> x.v
      [] x.t = "num" -> ToString(x.v)
      [] x.t = "bool" -> IF x.v THEN "true" ELSE "false"
      [] x.t = "obj" -> "[object Object]"
      [] x.t = "arr" -> Join(x.v, 1)
\* Array.prototype.join(','): null and undefined elements are empty
Join(q, i) ==
    IF i > Len(q) THEN ""
    ELSE (IF q[i].t \in {"undef", "null"} THEN "" ELSE ToStr(q[i]))
         \o (IF i < Len(q) THEN "," ELSE "") \o Join(q, i + 1)

\* x[prop] for an x that is neither null nor undefined. Own properties only:
\* the keys of a mapping, the indices and length of a sequence or a string
\* (inherited members such as constructor or toString are not modelled; no
\* path of the modelled templates names one)
GetProp(x, prop) ==
    CASE x.t = "obj" -> IF prop \in DOMAIN x.v THEN x.v[prop] ELSE Undef
      [] x.t = "arr" ->
            IF prop = "length" THEN Num(Len(x.v))
            ELSE IF \E k \in 1..Len(x.v) : ToString(k - 1) = prop
                 THEN x.v[CHOOSE k \in 1..Len(x.v) : ToString(k - 1) = prop]
                 ELSE Undef
      [] x.t = "str" ->
            IF prop = "length" THEN Num(Len(x.v))
            ELSE IF \E k \in 1..Len(x.v) : ToString(k - 1) = prop
                 THEN Str(LET k == CHOOSE j \in 1..Len(x.v) : ToString(j - 1) = prop
                          IN  Sub(x.v, k, k))
                 ELSE Undef
      [] OTHER -> Undef

\* path.split('.').reduce((current, prop) => current && current[prop], obj)
RECURSIVE Reduce(_, _, _)
Reduce(current, props, i) ==
    IF i > Len(props) THEN current
    ELSE Reduce(IF Truthy(current) THEN GetProp(current, props[i]) ELSE current,
                props, i + 1)

getValue(obj, path) == Reduce(obj, SplitDot(path), 1)

\* whether prop is an array index: a canonical decimal numeral
IsIndex(prop) ==
    /\ prop # ""
    /\ \A i \in 1..Len(prop) :
           Sub(prop, i, i) \in {"0", "1", "2", "3", "4", "5", "6", "7", "8", "9"}
    /\ (Len(prop) > 1 => Sub(prop, 1, 1) # "0")

\* the number an index names
IndexValue(prop) == CHOOSE k \in 0..(10 ^ Len(prop) - 1) : ToString(k) = prop

\* x[key] = val, in strict mode (server.js is an ES module). On a mapping
\* the key is set. On a sequence an index sets that element (the elements
\* skipped are holes); any other key becomes a property of the array object,
\* which is no part of the JSON value. On a string, number or boolean the
\* assignment is a TypeError. [threw, v: x after the assignment]
Assign(x, key, val) ==
    CASE x.t = "obj" ->
            [threw |-> FALSE,
             v |-> Obj([k \in DOMAIN x.v \cup {key} |-> IF k = key THEN val ELSE x.v[k]])]
      [] x.t = "arr" ->
            IF ~IsIndex(key) THEN [threw |-> FALSE, v |-> x]
            ELSE LET n == IF IndexValue(key) + 1 > Len(x.v)
                          THEN IndexValue(key) + 1 ELSE Len(x.v)
                 IN  [threw |-> FALSE,
                      v |-> Arr([j \in 1..n |->
                                   IF j = IndexValue(key) + 1 THEN val
                                   ELSE IF j <= Len(x.v) THEN x.v[j] ELSE Undef])]
      [] OTHER -> [threw |-> TRUE, v |-> x]

\* Lines 94-100 from the key at position i on, `current` being the node the
\* keys before it led to:
\*   keys.reduce((current, key) => { if (!current[key]) current[key] = {};
\*                                   return current[key]; }, obj)
\*   target[lastKey] = value
\* [threw, v: `current` as the call leaves it]. A node that is created, and a
\* falsy value that is replaced by {}, stays in the tree when a later step
\* throws.
RECURSIVE SetFrom(_, _, _, _)
SetFrom(current, keys, i, value) ==
    IF i = Len(keys) THEN Assign(current, keys[i], value)
    ELSE LET old == GetProp(current, keys[i])
             made == IF Truthy(old) THEN [threw |-> FALSE, v |-> current]
                     ELSE Assign(current, keys[i], Obj(<<>>))
             next == IF Truthy(old) THEN old ELSE Obj(<<>>)
             rest == SetFrom(next, keys, i + 1, value)
         IN  IF made.threw THEN made
             ELSE IF current.t \in {"str", "num", "bool"}
                     \/ (current.t = "arr" /\ ~IsIndex(keys[i]))
             THEN [threw |-> rest.threw, v |-> current]
             ELSE [threw |-> rest.threw, v |-> Assign(made.v, keys[i], rest.v).v]

\* setValue(obj, path, value): obj after the call, and whether it threw
setValue(obj, path, value) == SetFrom(obj, SplitDot(path), 1, value)

---------------------------------------------------------------------------
(* buildHTML, pass 1: scalar placeholders                                  *)

\* /\{\{([^#\/].*?)\}\}/ tried at position i: the position after the match,
\* 0 when it does not match there. The first character of the key is any
\* character but # and /; the rest is the shortest run without a line break
\* that is followed by }}
ScalarMatchEnd(s, i) ==
    IF \/ ~StartsAt(s, "{{", i)
       \/ i + 2 > Len(s)
       \/ Sub(s, i + 2, i + 2) \in {"#", "/"}
    THEN 0
    ELSE LET j == IndexOfFrom(s, "}}", i + 3)
         IN  IF j = 0 \/ Contains(Sub(s, i + 3, j - 1), "\n") THEN 0 ELSE j + 2

\* (match, key) => { const value = getValue(data, key.trim());
\*                   return value !== undefined ? value : match; }
ScalarCallback(match, key, d) ==
    LET value == getValue(d, Trim(key))
    IN  IF value.t # "undef" THEN ToStr(value) ELSE match

\* html.replace(/\{\{([^#\/].*?)\}\}/g, callback), from position `from` on
RECURSIVE ReplaceScalars(_, _, _)
ReplaceScalars(s, d, from) ==
    LET i == IndexOfFrom(s, "{{", from)
        e == ScalarMatchEnd(s, i)
    IN  IF i = 0 THEN Sub(s, from, Len(s))
        ELSE IF e = 0 THEN Sub(s, from, i) \o ReplaceScalars(s, d, i + 1)
        ELSE Sub(s, from, i - 1)
             \o ScalarCallback(Sub(s, i, e - 1), Sub(s, i + 2, e - 3), d)
             \o ReplaceScalars(s, d, e)

---------------------------------------------------------------------------
(* buildHTML, pass 2: each-blocks                                          *)

NoMatch == [found |-> FALSE, index |-> 0, end |-> 0, arrayPath |-> "", block |-> ""]

\* /\{\{#each\s+([^}]+)\}\}([\s\S]*?)\{\{\/each\}\}/ tried at position i.
\* index: where the match starts, end: the position after it, arrayPath:
\* match[1].trim(), block: match[2]
EachMatchAt(s, i) ==
    LET p == i + 7
        q == IndexOfFrom(s, "}", p)
        c == IndexOfFrom(s, "{{/each}}", q + 2)
    IN  IF /\ StartsAt(s, "{{#each", i)
           /\ p <= Len(s)
           /\ IsSpace(Sub(s, p, p))
           /\ q >= p + 2
           /\ StartsAt(s, "}}", q)
           /\ c # 0
        THEN [found |-> TRUE, index |-> i, end |-> c + 9,
              arrayPath |-> Trim(Sub(s, p, q - 1)), block |-> Sub(s, q + 2, c - 1)]
        ELSE NoMatch

\* the leftmost match that starts at position `from` or later
RECURSIVE EachSearch(_, _)
EachSearch(s, from) ==
    LET i == IndexOfFrom(s, "{{#each", from)
    IN  IF i = 0 THEN NoMatch
        ELSE IF EachMatchAt(s, i).found THEN EachMatchAt(s, i)
        ELSE EachSearch(s, i + 1)

\* /\{\{this\.([^}]+)\}\}/ tried at position i: the position after the match, 0
\* when it does not match there
ThisPropMatchEnd(s, i) ==
    LET p == i + 7
        q == IndexOfFrom(s, "}", p)
    IN  IF StartsAt(s, "{{this.", i) /\ q > p /\ StartsAt(s, "}}", q)
        THEN q + 2 ELSE 0

\* whether /\{\{this\.([^}]+)\}\}/ matches anywhere in s from `from` on
RECURSIVE HasThisProp(_, _)
HasThisProp(s, from) ==
    LET i == IndexOfFrom(s, "{{this.", from)
    IN  IF i = 0 THEN FALSE
        ELSE IF ThisPropMatchEnd(s, i) # 0 THEN TRUE
        ELSE HasThisProp(s, i + 1)

\* (m, prop) => item[prop.trim()] || ''
ThisPropCallback(item, prop) ==
    LET x == GetProp(item, Trim(prop))
    IN  IF Truthy(x) THEN ToStr(x) ELSE ""

\* itemBlock.replace(/\{\{this\.([^}]+)\}\}/g, callback)
RECURSIVE ReplaceThisProps(_, _, _)
ReplaceThisProps(s, item, from) ==
    LET i == IndexOfFrom(s, "{{this.", from)
        e == ThisPropMatchEnd(s, i)
    IN  IF i = 0 THEN Sub(s, from, Len(s))
        ELSE IF e = 0 THEN Sub(s, from, i) \o ReplaceThisProps(s, item, i + 1)
        ELSE Sub(s, from, i - 1)
             \o ThisPropCallback(item, Sub(s, i + 7, e - 3))
             \o ReplaceThisProps(s, item, e)

\* itemBlock.replace(/\{\{this\}\}/g, () => typeof item === 'string' ? item : '')
RECURSIVE ReplaceThis(_, _, _)
ReplaceThis(s, item, from) ==
    LET i == IndexOfFrom(s, "{{this}}", from)
    IN  IF i = 0 THEN Sub(s, from, Len(s))
        ELSE Sub(s, from, i - 1)
             \o (IF item.t = "str" THEN item.v ELSE "")
             \o ReplaceThis(s, item, i + 8)

\* the body of array.map(item => ...): item[...] on null or undefined is a
\* TypeError, raised by the first {{this.x}} the block holds
ItemThrows(block, item) ==
    item.t \in {"null", "undef"} /\ HasThisProp(block, 1)

RenderItem(block, item) == ReplaceThis(ReplaceThisProps(block, item, 1), item, 1)

\* array.map(...).join('')
RECURSIVE RenderItems(_, _, _)
RenderItems(block, q, i) ==
    IF i > Len(q) THEN ""
    ELSE RenderItem(block, q[i]) \o RenderItems(block, q, i + 1)

\* (mutant) one regular expression object shared by all calls, as if eachRegex
\* were a constant of the module: its lastIndex is what the last call left
SharedEachRegex == lastIndex

\* the regular expression object of one call: created by the literal at the
\* start of the pass, so its lastIndex is 0
NewEachRegex == 0

\* One turn of  while ((match = eachRegex.exec(html)) !== null) { ... }
\* exec searches html from lastIndex; a failed search ends the loop and
\* resets lastIndex, a match leaves lastIndex after it. The block of an
\* array path is replaced by html.replace(match[0], rendered): the first
\* occurrence of the matched text, the rendering used as replacement text
EachStep(h, li, d) ==
    LET m == EachSearch(h, li + 1)
        array == getValue(d, m.arrayPath)
        match0 == Sub(h, m.index, m.end - 1)
    IN  IF ~m.found THEN [kind |-> "exit", html |-> h, lastIndex |-> 0]
        ELSE IF array.t # "arr"
        THEN [kind |-> "skipped", html |-> h, lastIndex |-> m.end - 1]
        ELSE IF \E k \in 1..Len(array.v) : ItemThrows(m.block, array.v[k])
        THEN [kind |-> "threw", html |-> h, lastIndex |-> m.end - 1]
        ELSE [kind |-> "replaced",
              html |-> ReplaceFirst(h, match0, RenderItems(m.block, array.v, 1)),
              lastIndex |-> m.end - 1]

\* the whole loop
RECURSIVE EachLoop(_, _, _)
EachLoop(h, li, d) ==
    LET r == EachStep(h, li, d)
    IN  IF r.kind \in {"exit", "threw"} THEN r ELSE EachLoop(r.html, r.lastIndex, d)

---------------------------------------------------------------------------
(* buildHTML, pass 3: section overrides                                    *)

sectionMap ==
    << [id |-> "home",      class |-> "hero",                path |-> "hero"],
       [id |-> "",          class |-> "experience-section",  path |-> "experience"],
       [id |-> "",          class |-> "testimonial-section", path |-> "testimonial"],
       [id |-> "about",     class |-> "about-section",       path |-> "about"],
       [id |-> "services",  class |-> "services-section",    path |-> "services"],
       [id |-> "portfolio", class |-> "portfolio-section",   path |-> "portfolio"],
       [id |-> "",          class |-> "standards-section",   path |-> "standards"],
       [id |-> "",          class |-> "location-section",    path |-> "location"],
       [id |-> "contact",   class |-> "contact-section",     path |-> "contact"] >>

\* the first ">" at position p or later, 0 when there is none
NextGt(s, p) == IndexOfFrom(s, ">", p)

\* The ways the pattern
\*   <section[^>]*id="ID"[^>]*class="[^"]*CLASS[^"]*"[^>]*>([\s\S]*?)</section>
\* (the id part only for a section that has one) matches when tried at
\* position i of the lower-cased text s: <<a, b, g, c>> with a where id="ID"
\* starts, b where class=" starts, g the ">" that ends the opening tag and c
\* where the first </section> after it starts
SectionMatchesAt(s, i, sec) ==
    LET p0 == i + 8
        idPat == "id=\"" \o sec.id \o "\""
        as == IF sec.id = "" THEN {p0}
              ELSE {a \in p0..(NextGt(s, p0) - 1) : StartsAt(s, idPat, a)}
        afterId(a) == IF sec.id = "" THEN a ELSE a + Len(idPat)
        bs(a) == {b \in afterId(a)..(NextGt(s, afterId(a)) - 1) :
                    /\ StartsAt(s, "class=\"", b)
                    /\ LET d == IndexOfFrom(s, "\"", b + 7)
                       IN  /\ d # 0
                           /\ Contains(Sub(s, b + 7, d - 1), sec.class)
                           /\ NextGt(s, d + 1) # 0
                           /\ IndexOfFrom(s, "</section>", NextGt(s, d + 1) + 1) # 0}
        gOf(b) == NextGt(s, IndexOfFrom(s, "\"", b + 7) + 1)
        cOf(b) == IndexOfFrom(s, "</section>", gOf(b) + 1)
    IN  IF ~StartsAt(s, "<section", i) THEN {}
        ELSE UNION {{<<a, b, gOf(b), cOf(b)>> : b \in bs(a)} : a \in as}

\* the match the backtracking search takes: each [^>]* is greedy, so the
\* last possible id and then the last possible class
SectionMatchAt(s, i, sec) ==
    LET ms == SectionMatchesAt(s, i, sec)
    IN  CHOOSE m \in ms : \A n \in ms :
            \/ n[1] < m[1]
            \/ n[1] = m[1] /\ n[2] <= m[2]

\* html.match(sectionRegex): the leftmost match, with the i flag
RECURSIVE SectionSearch(_, _, _)
SectionSearch(s, sec, from) ==
    LET i == IndexOfFrom(s, "<section", from)
    IN  IF i = 0 THEN [found |-> FALSE, index |-> 0, g |-> 0, c |-> 0]
        ELSE IF SectionMatchesAt(s, i, sec) # {}
        THEN LET m == SectionMatchAt(s, i, sec)
             IN  [found |-> TRUE, index |-> i, g |-> m[3], c |-> m[4]]
        ELSE SectionSearch(s, sec, i + 1)

\* The body of sectionMap.forEach for one section:
\*   html = html.replace(sectionRegex, (match, innerContent) =>
\*              match.replace(innerContent, customHtml))
\* when customHtml is truthy and the pattern matches
SectionOverride(h, d, sec) ==
    LET customHtml == getValue(d, sec.path \o ".customHtml")
        m == SectionSearch(ToLower(h), sec, 1)
        match0 == Sub(h, m.index, m.c + 9)
        innerContent == Sub(h, m.g + 1, m.c - 1)
    IN  IF Truthy(customHtml) /\ m.found
        THEN Sub(h, 1, m.index - 1)
             \o ReplaceFirst(match0, innerContent, ToStr(customHtml))
             \o Sub(h, m.c + 10, Len(h))
        ELSE h

\* sectionMap.forEach(...), sections k..9
RECURSIVE SectionPass(_, _, _)
SectionPass(h, d, k) ==
    IF k > Len(sectionMap) THEN h
    ELSE SectionPass(SectionOverride(h, d, sectionMap[k]), d, k + 1)

\* buildHTML(template, data): the document, or that the call threw
\* (each pass is given the value the pass before it produced)
buildHTML(template, d) ==
    LET scalars == {ReplaceScalars(template, d, 1)}
        loops == {EachLoop(h, NewEachRegex, d) : h \in scalars}
        Return(r) == IF r.kind = "threw" THEN [threw |-> TRUE, html |-> ""]
                     ELSE [threw |-> FALSE, html |-> SectionPass(r.html, d, 1)]
    IN  CHOOSE result \in {Return(r) : r \in loops} : TRUE

---------------------------------------------------------------------------
(* build.js: the script that writes index.html. Its regular expressions    *)
(* are, character for character, those of buildHTML, and it has its own    *)
(* getValue with the same body; the callbacks, the loop and the section    *)
(* map are its own statements, modelled here from its own lines            *)

\* template.replace(/\{\{([^#\/].*?)\}\}/g, (match, key) => {
\*     const value = getValue(data, key.trim());
\*     return value !== undefined ? value : match; })
RECURSIVE BuildScalars(_, _, _)
BuildScalars(s, d, from) ==
    LET i == IndexOfFrom(s, "{{", from)
        e == ScalarMatchEnd(s, i)
        value == getValue(d, Trim(Sub(s, i + 2, e - 3)))
    IN  IF i = 0 THEN Sub(s, from, Len(s))
        ELSE IF e = 0 THEN Sub(s, from, i) \o BuildScalars(s, d, i + 1)
        ELSE Sub(s, from, i - 1)
             \o (IF value.t # "undef" THEN ToStr(value) ELSE Sub(s, i, e - 1))
             \o BuildScalars(s, d, e)

\* (mutant) item[prop.trim()] ?? '': only a missing or null field is blank
BuildThisPropNullish(item, prop) ==
    LET x == GetProp(item, Trim(prop))
    IN  IF x.t \in {"undef", "null"} THEN "" ELSE ToStr(x)

\* (m, prop) => { return item[prop.trim()] || ''; }
BuildThisProp(item, prop) ==
    LET x == GetProp(item, Trim(prop))
    IN  IF Truthy(x) THEN ToStr(x) ELSE ""

\* itemBlock.replace(/\{\{this\.([^}]+)\}\}/g, ...)
RECURSIVE BuildThisProps(_, _, _)
BuildThisProps(s, item, from) ==
    LET i == IndexOfFrom(s, "{{this.", from)
        e == ThisPropMatchEnd(s, i)
    IN  IF i = 0 THEN Sub(s, from, Len(s))
        ELSE IF e = 0 THEN Sub(s, from, i) \o BuildThisProps(s, item, i + 1)
        ELSE Sub(s, from, i - 1)
             \o BuildThisProp(item, Sub(s, i + 7, e - 3))
             \o BuildThisProps(s, item, e)

\* itemBlock.replace(/\{\{this\}\}/g, () => typeof item === 'string' ? item : '')
RECURSIVE BuildThis(_, _, _)
BuildThis(s, item, from) ==
    LET i == IndexOfFrom(s, "{{this}}", from)
    IN  IF i = 0 THEN Sub(s, from, Len(s))
        ELSE Sub(s, from, i - 1)
             \o (IF item.t = "str" THEN item.v ELSE "")
             \o BuildThis(s, item, i + 8)

\* array.map(item => ...).join(''), elements i and later
RECURSIVE BuildItems(_, _, _)
BuildItems(block, q, i) ==
    IF i > Len(q) THEN ""
    ELSE BuildThis(BuildThisProps(block, q[i], 1), q[i], 1)
         \o BuildItems(block, q, i + 1)

\* while ((match = eachRegex.exec(template)) !== null) { ... }: the template
\* after the loop, or that an element threw (a null or undefined element in
\* a block with {{this.x}}); li is eachRegex.lastIndex
RECURSIVE BuildEachLoop(_, _, _)
BuildEachLoop(t, li, d) ==
    LET m == EachSearch(t, li + 1)
        array == getValue(d, m.arrayPath)
    IN  IF ~m.found THEN [threw |-> FALSE, template |-> t]
        ELSE IF array.t # "arr" THEN BuildEachLoop(t, m.end - 1, d)
        ELSE IF \E k \in 1..Len(array.v) :
                    array.v[k].t \in {"null", "undef"} /\ HasThisProp(m.block, 1)
        THEN [threw |-> TRUE, template |-> t]
        ELSE BuildEachLoop(
                 ReplaceFirst(t, Sub(t, m.index, m.end - 1),
                              BuildItems(m.block, array.v, 1)),
                 m.end - 1, d)

\* the sectionMap of build.js
BuildSectionMap ==
    << [id |-> "home",      class |-> "hero",                path |-> "hero"],
       [id |-> "",          class |-> "experience-section",  path |-> "experience"],
       [id |-> "",          class |-> "testimonial-section", path |-> "testimonial"],
       [id |-> "about",     class |-> "about-section",       path |-> "about"],
       [id |-> "services",  class |-> "services-section",    path |-> "services"],
       [id |-> "portfolio", class |-> "portfolio-section",   path |-> "portfolio"],
       [id |-> "",          class |-> "standards-section",   path |-> "standards"],
       [id |-> "",          class |-> "location-section",    path |-> "location"],
       [id |-> "contact",   class |-> "contact-section",     path |-> "contact"] >>

\* sectionMap.forEach(section => { ... }), sections k and later: for a truthy
\* customHtml and a matching pattern,
\*   template = template.replace(sectionRegex, (match, innerContent) =>
\*                  match.replace(innerContent, customHtml))
RECURSIVE BuildSectionPass(_, _, _)
BuildSectionPass(t, d, k) ==
    IF k > Len(BuildSectionMap) THEN t
    ELSE LET section == BuildSectionMap[k]
             customHtml == getValue(d, section.path \o ".customHtml")
             m == SectionSearch(ToLower(t), section, 1)
             match0 == Sub(t, m.index, m.c + 9)
             innerContent == Sub(t, m.g + 1, m.c - 1)
             next == IF Truthy(customHtml) /\ m.found
                     THEN Sub(t, 1, m.index - 1)
                          \o ReplaceFirst(match0, innerContent, ToStr(customHtml))
                          \o Sub(t, m.c + 10, Len(t))
                     ELSE t
         IN  BuildSectionPass(next, d, k + 1)

\* node build.js with index.template.html = template and data.json = d: what
\* fs.writeFileSync puts in index.html, or that the script ended with an
\* error before it wrote anything
BuildJs(template, d) ==
    LET loops == {BuildEachLoop(t, 0, d) : t \in {BuildScalars(template, d, 1)}}
        Written(r) == IF r.threw THEN [threw |-> TRUE, html |-> ""]
                      ELSE [threw |-> FALSE, html |-> BuildSectionPass(r.template, d, 1)]
    IN  CHOOSE result \in {Written(r) : r \in loops} : TRUE

---------------------------------------------------------------------------
(* The inputs of a compile: templates written from fragments, and trees    *)

\* the longest template, in fragments
MaxFrags == 2

\* the longest document the each-loop is followed to: the loop need not end (a
\* rendering that holds $& puts the matched block back, and after a block that
\* was never closed it puts it back twice, behind lastIndex)
MaxHtml == 320

Placeholder(path) == [kind |-> "scalar", path |-> path, text |-> "{{" \o path \o "}}"]

EachBlock(path, block) ==
    [kind |-> "each", path |-> path, block |-> block,
     text |-> "{{#each " \o path \o "}}" \o block \o "{{/each}}"]

Section(open, inner) ==
    [kind |-> "section", open |-> open, inner |-> inner,
     text |-> open \o inner \o "</section>"]

AboutOpen == "<section id=\"about\" class=\"about-section\">"

\* plain text; placeholders whose path is there (o.t, written with spaces) or
\* not: a missing key, a missing key below a mapping, and a key below an
\* empty string, a zero, a null and a non-empty string
PlainFragments ==
    { [kind |-> "text", text |-> "x"] } \cup
    { Placeholder(p) : p \in {" o.t ", "m", "o.m.x", "e.x", "z.x", "n.x", "s.x"} }

\* each-blocks over items (what it holds varies with the tree) and over none
\* (always the empty sequence), and an each-block that is never closed
EachFragments ==
    { EachBlock("items", "{{this.title}}"),
      EachBlock("items", "<{{this}}>"),
      EachBlock("none", "{{this}}"),
      [kind |-> "open", path |-> "items", text |-> "{{#each items}}{{this.title}}"] }

\* the about section as the site's template writes it (id, then class), with
\* some content, with none and with content that is also the id; with the two
\* attributes the other way round; and with more attributes and classes
SectionFragments ==
    { Section(AboutOpen, "OLD"),
      Section(AboutOpen, ""),
      Section(AboutOpen, "about"),
      Section("<section class=\"about-section\" id=\"about\">", "OLD"),
      Section("<SECTION lang=\"en\" id=\"about\" class=\"wide about-section dark\" >", "OLD") }

Fragments == PlainFragments \cup EachFragments \cup SectionFragments

Templates == UNION { [1..n -> Fragments] : n \in 1..MaxFrags }

RECURSIVE TemplateText(_, _)
TemplateText(fs, i) ==
    IF i > Len(fs) THEN "" ELSE fs[i].text \o TemplateText(fs, i + 1)

\* A content tree: the keys every tree has, items and about.customHtml as
\* given (Undef: the key is not there)
Tree(items, customHtml) ==
    Obj([k \in {"o", "e", "z", "n", "s", "none"}
               \cup (IF items.t = "undef" THEN {} ELSE {"items"})
               \cup (IF customHtml.t = "undef" THEN {} ELSE {"about"}) |->
            CASE k = "o" -> Obj([t |-> Str("U")])
              [] k = "e" -> Str("")
              [] k = "z" -> Num(0)
              [] k = "n" -> Null
              [] k = "s" -> Str("S")
              [] k = "none" -> Arr(<<>>)
              [] k = "items" -> items
              [] k = "about" -> Obj([customHtml |-> customHtml])])

Titled(x) == Obj([title |-> x])

Trees ==
    { Tree(Arr(<<Titled(Str("A")), Titled(Str("B"))>>), Str("<p>NEW</p>")),
      Tree(Arr(<<>>), Str("")),
      Tree(Str("not an array"), Undef),
      Tree(Titled(Str("A")), Str("a</section>b")),
      Tree(Undef, Str("about")),
      Tree(Arr(<<Titled(Str("A")), Null>>), Str("<p>NEW</p>")),
      Tree(Arr(<<Str("s1"), Num(3)>>), Num(5)),
      Tree(Arr(<<Titled(Num(0)), Titled(Bool(FALSE)), Obj([alt |-> Str("A")])>>),
           Str("<p>NEW</p>")),
      Tree(Arr(<<Titled(Str("$&"))>>), Str("$&!")) }

---------------------------------------------------------------------------
(* One call of buildHTML, pass by pass, and a second call on the same      *)
(* inputs                                                                  *)

Result == [threw |-> pc = "threw", html |-> IF pc = "threw" THEN "" ELSE html]

InitCompile ==
    /\ frags \in Templates
    /\ data \in Trees
    /\ html = TemplateText(frags, 1)
    /\ pc = "scalars"
    /\ lastIndex = 0
    /\ call = 1
    /\ firstResult = [threw |-> FALSE, html |-> ""]

\* lines 105-114: let html = template; the scalar pass; const eachRegex = ...
ScalarPass ==
    /\ pc = "scalars"
    /\ html' = ReplaceScalars(html, data, 1)
    /\ lastIndex' = NewEachRegex
    /\ pc' = "each"
    /\ UNCHANGED <<frags, data, call, firstResult>>
    /\ UNCHANGED outsideCompile

\* lines 116-136: one turn of the while loop that replaced a block
EachReplace ==
    /\ pc = "each"
    /\ LET r == EachStep(html, lastIndex, data)
       IN  /\ r.kind = "replaced"
           /\ Len(r.html) <= MaxHtml
           /\ html' = r.html
           /\ lastIndex' = r.lastIndex
    /\ UNCHANGED <<frags, data, pc, call, firstResult>>
    /\ UNCHANGED outsideCompile

\* one turn on a block whose path is no array: nothing is replaced
EachSkip ==
    /\ pc = "each"
    /\ LET r == EachStep(html, lastIndex, data)
       IN  /\ r.kind = "skipped"
           /\ lastIndex' = r.lastIndex
    /\ UNCHANGED <<frags, data, html, pc, call, firstResult>>
    /\ UNCHANGED outsideCompile

\* one turn in which rendering an element raised a TypeError: buildHTML is
\* left by the exception
EachThrow ==
    /\ pc = "each"
    /\ LET r == EachStep(html, lastIndex, data)
       IN  /\ r.kind = "threw"
           /\ lastIndex' = r.lastIndex
    /\ pc' = "threw"
    /\ UNCHANGED <<frags, data, html, call, firstResult>>
    /\ UNCHANGED outsideCompile

\* exec found no further block: the loop ends
EachExit ==
    /\ pc = "each"
    /\ LET r == EachStep(html, lastIndex, data)
       IN  /\ r.kind = "exit"
           /\ lastIndex' = r.lastIndex
    /\ pc' = "sections"
    /\ UNCHANGED <<frags, data, html, call, firstResult>>
    /\ UNCHANGED outsideCompile

\* lines 138-180: sectionMap.forEach(...); return html
SectionOverrides ==
    /\ pc = "sections"
    /\ html' = SectionPass(html, data, 1)
    /\ pc' = "done"
    /\ UNCHANGED <<frags, data, lastIndex, call, firstResult>>
    /\ UNCHANGED outsideCompile

\* the caller compiles the same template and tree again
CompileAgain ==
    /\ pc \in {"done", "threw"}
    /\ call = 1
    /\ call' = 2
    /\ firstResult' = Result
    /\ html' = TemplateText(frags, 1)
    /\ pc' = "scalars"
    /\ UNCHANGED <<frags, data, lastIndex>>
    /\ UNCHANGED outsideCompile

---------------------------------------------------------------------------
(* The publish pipeline: POST /api/publish                                 *)

\* the publish requests of a behaviour
MaxPublish == 2

Requests == 1..MaxPublish

\* What the JSON files hold, by name: the production content the site starts
\* with, an edit of it, and an edit with a null among the items
Contents == {"v0", "v1", "vnull"}

\* JSON.parse(dataString)
ParseJSON(c) ==
    CASE c = "v0" -> Tree(Arr(<<Titled(Str("A"))>>), Undef)
      [] c = "v1" -> Tree(Arr(<<Titled(Str("A")), Titled(Str("B"))>>), Str("<p>NEW</p>"))
      [] c = "vnull" -> Tree(Arr(<<Titled(Str("A")), Null>>), Undef)

\* index.template.html
SiteTemplate ==
    "{{o.t}}{{#each items}}{{this.title}}{{/each}}" \o AboutOpen \o "OLD</section>"

\* build.js, lines 17-102: compile data.json with the template; the script
\* ends with an error, before it writes index.html, when the compile throws
BuildResults == [c \in Contents |-> BuildJs(SiteTemplate, ParseJSON(c))]

\* node build.js on a data.json that holds `production`: the template and the
\* script are the same files throughout, so the same content gives the same
\* result each time it is built
BuildScript(production) == builds[production]

IdleRequest ==
    [pc |-> "idle", dataString |-> "none", htmlContent |-> "none",
     uploads |-> {}, dataOk |-> FALSE, outcome |-> "none", status |-> 0]

InitPublish ==
    /\ previewFile \in Contents \cup {"none"}
    /\ productionFile = "v0"
    /\ builds = BuildResults
    /\ indexFile = BuildScript("v0").html
    /\ blobData = "v0"
    /\ blobIndex \in {"none", BuildScript("v0").html}
    /\ reqs = [r \in Requests |-> IdleRequest]
    /\ edited = FALSE

\* (mutant) the copy is skipped when data.json is there already
PromoteIfAbsent(preview, production) ==
    IF production = "none" THEN preview ELSE production

\* line 1101: writeFileSync(productionPath, dataString): data.json becomes
\* what was read from the preview
Promote(preview, production) == preview

\* lines 1158-1161: the handler's catch: the error is reported with status 500
Fail(req, why) == [req EXCEPT !.pc = "done", !.outcome = why, !.status = 500]

\* (mutant) a failed index.html upload is logged and the run goes on to its
\* success response, as the catch of the data.json upload does
SwallowIndexUploadError(req) ==
    [req EXCEPT !.pc = "done", !.outcome = "uploadFailed", !.status = 200]

\* lines 1152-1155: a failed index.html upload is thrown again
OnIndexUploadError(req) == Fail(req, "uploadFailed")

\* (mutant) after a failed data.json upload the build is skipped and the
\* index.html that lies on the disk is uploaded
UploadStaleIndex(req) ==
    [req EXCEPT !.pc = "uploadIndex", !.htmlContent = indexFile,
                !.uploads = @ \cup {"index.html"}]

\* lines 1120-1123: a failed data.json upload is logged and the run goes on
OnDataUploadError(req) == [req EXCEPT !.pc = "build"]

\* (mutant) a failed promotion is logged and the run goes on to its uploads
SwallowPromoteError(req) ==
    [req EXCEPT !.pc = "uploadData", !.outcome = "promoteFailed",
                !.uploads = {"data.json"}]

\* lines 1103-1106: the catch of the promote step throws again, with the
\* message "Failed to copy preview data to production"
OnPromoteError(req) == Fail(req, "promoteFailed")

\* lines 1096-1118, the preview is read and copied: data.json is written and
\* the upload of data.json is called before the handler first awaits
StartPublish(r) ==
    /\ reqs[r].pc = "idle"
    /\ \A q \in Requests : q < r => reqs[q].pc # "idle"
    /\ previewFile # "none"
    /\ productionFile' = Promote(previewFile, productionFile)
    /\ reqs' = [reqs EXCEPT ![r] = [@ EXCEPT !.pc = "uploadData",
                                             !.dataString = previewFile,
                                             !.uploads = {"data.json"}]]
    /\ UNCHANGED <<previewFile, indexFile, blobData, blobIndex, edited, builds>>
    /\ UNCHANGED outsidePublish

\* lines 1096-1106 and 1158-1161: readFileSync of the preview throws (there is
\* no preview file): nothing is written
PromoteReadFails(r) ==
    /\ reqs[r].pc = "idle"
    /\ \A q \in Requests : q < r => reqs[q].pc # "idle"
    /\ previewFile = "none"
    /\ reqs' = [reqs EXCEPT ![r] = OnPromoteError(@)]
    /\ UNCHANGED <<previewFile, productionFile, indexFile, blobData, blobIndex, edited, builds>>
    /\ UNCHANGED outsidePublish

\* lines 1099-1106 and 1158-1161: the preview is read and writeFileSync of
\* data.json throws when it opens the file (no permission, a read-only
\* disk): data.json is as it was
PromoteWriteFails(r) ==
    /\ reqs[r].pc = "idle"
    /\ \A q \in Requests : q < r => reqs[q].pc # "idle"
    /\ previewFile # "none"
    /\ reqs' = [reqs EXCEPT ![r] = OnPromoteError([@ EXCEPT !.dataString = previewFile])]
    /\ UNCHANGED <<previewFile, productionFile, indexFile, blobData, blobIndex, edited, builds>>
    /\ UNCHANGED outsidePublish

\* lines 1118-1119 and 1126-1127: the data.json upload succeeded; build.js is
\* started
DataUploaded(r) ==
    /\ reqs[r].pc = "uploadData"
    /\ blobData' = reqs[r].dataString
    /\ reqs' = [reqs EXCEPT ![r] = [@ EXCEPT !.pc = "build", !.dataOk = TRUE]]
    /\ UNCHANGED <<previewFile, productionFile, indexFile, blobIndex, edited, builds>>
    /\ UNCHANGED outsidePublish

\* lines 1120-1127: the data.json upload failed
DataUploadFails(r) ==
    /\ reqs[r].pc = "uploadData"
    /\ reqs' = [reqs EXCEPT ![r] = OnDataUploadError(@)]
    /\ UNCHANGED <<previewFile, productionFile, indexFile, blobData, blobIndex, edited, builds>>
    /\ UNCHANGED outsidePublish

\* lines 1127-1150: build.js ran to its end on the data.json of that moment
\* and wrote index.html; the handler reads index.html and calls its upload
BuildSucceeds(r) ==
    /\ reqs[r].pc = "build"
    /\ ~BuildScript(productionFile).threw
    /\ indexFile' = BuildScript(productionFile).html
    /\ reqs' = [reqs EXCEPT ![r] = [@ EXCEPT !.pc = "uploadIndex",
                                             !.htmlContent = indexFile',
                                             !.uploads = @ \cup {"index.html"}]]
    /\ UNCHANGED <<previewFile, productionFile, blobData, blobIndex, edited, builds>>
    /\ UNCHANGED outsidePublish

\* lines 1127-1129 and 1158-1161: build.js ended with an error (the compile
\* threw, or the script could not run or read its files): execAsync rejects
BuildFails(r) ==
    /\ reqs[r].pc = "build"
    /\ reqs' = [reqs EXCEPT ![r] = Fail(@, "buildFailed")]
    /\ UNCHANGED <<previewFile, productionFile, indexFile, blobData, blobIndex, edited, builds>>
    /\ UNCHANGED outsidePublish

\* lines 1150-1157: the index.html upload succeeded
IndexUploaded(r) ==
    /\ reqs[r].pc = "uploadIndex"
    /\ blobIndex' = reqs[r].htmlContent
    /\ reqs' = [reqs EXCEPT ![r] = [@ EXCEPT !.pc = "done", !.outcome = "ok",
                                             !.status = 200]]
    /\ UNCHANGED <<previewFile, productionFile, indexFile, blobData, edited, builds>>
    /\ UNCHANGED outsidePublish

\* lines 1152-1161: the index.html upload failed
IndexUploadFails(r) ==
    /\ reqs[r].pc = "uploadIndex"
    /\ reqs' = [reqs EXCEPT ![r] = OnIndexUploadError(@)]
    /\ UNCHANGED <<previewFile, productionFile, indexFile, blobData, blobIndex, edited, builds>>
    /\ UNCHANGED outsidePublish

---------------------------------------------------------------------------
(* The data routes: GET /api/data/original, GET /api/data, POST            *)
(* /api/data/reset, GET /api/preview and PUT /api/data                     *)

NotServed == [route |-> "none", status |-> 0, changed |-> "none", sinceReset |-> FALSE]

\* a file or blob that is there and is not JSON (the files are edited by
\* hand): JSON.parse of it throws
Unparsable == "vbad"

\* what a snapshot file or the data.json blob may hold
Snapshots == Contents \cup {Unparsable}

\* JSON.parse(dataString) returns
Parses(c) == c \in Contents

\* the two snapshot files, as a handler sees them
Files == [preview |-> previewFile, production |-> productionFile]

\* blobClient.download() and streamToString: the blob's content, "none" when
\* the download fails (ok = FALSE: the storage cannot be reached) or there is
\* no such blob
Download(ok) == IF ok THEN blobData ELSE "none"

\* readFileSync(productionPath) and, when it throws, the download from the
\* storage container: the string read, "none" when both fail
ReadProduction(f, ok) ==
    IF f.production # "none" THEN f.production ELSE Download(ok)

\* (mutant) the copy goes to data.json
WriteProductionPath(f, dataString) == [f EXCEPT !.production = dataString]

\* writeFileSync(previewPath, dataString)
WritePreviewPath(f, dataString) == [f EXCEPT !.preview = dataString]

\* try { JSON.parse(readFileSync(productionPath)) } catch { download the
\* blob and JSON.parse it }: the string that was read and parsed, "none"
\* when the file is missing or not JSON and the blob is too
ParseProduction(f, ok) ==
    IF Parses(f.production) THEN f.production
    ELSE IF Parses(Download(ok)) THEN Download(ok)
    ELSE "none"

\* What a handler that needs the preview data does with the files: it reads
\* and parses data-preview.json and, when either throws, creates the file
\* from data.json or from the blob, whichever it can read and parse first.
\* [ok: whether it got data, data, files]
LoadPreview(f, ok) ==
    IF Parses(f.preview) THEN [ok |-> TRUE, data |-> f.preview, files |-> f]
    ELSE IF ParseProduction(f, ok) = "none"
    THEN [ok |-> FALSE, data |-> "none", files |-> f]
    ELSE [ok |-> TRUE, data |-> ParseProduction(f, ok),
          files |-> WritePreviewPath(f, ParseProduction(f, ok))]

\* the files after a handler, and its answer
Serve(route, f, status) ==
    /\ previewFile' = f.preview
    /\ productionFile' = f.production
    /\ edited' = (edited \/ (f.preview # previewFile /\ \E r \in Requests : reqs[r].pc # "idle"))
    /\ served' = [route |-> route, status |-> status,
                  changed |-> IF f.production # productionFile THEN "data.json"
                            ELSE IF f.preview # previewFile THEN "data-preview.json"
                            ELSE "none",
                  sinceReset |-> IF route = "put" THEN FALSE
                                 ELSE IF route = "reset" /\ status = 200 THEN TRUE
                                 ELSE served.sinceReset]
    /\ UNCHANGED <<indexFile, blobData, blobIndex, reqs, builds>>
    /\ UNCHANGED <<compileVars, pathVars, docVars, deleteVars, reviewVars, scriptVars>>

\* PUT /api/data, lines 254-263: the preview file is overwritten
PutData(c) == Serve("put", WritePreviewPath(Files, c), 200)

\* GET /api/data/original, lines 184-209
GetOriginal(ok) ==
    Serve("original", Files, IF ParseProduction(Files, ok) = "none" THEN 500 ELSE 200)

\* GET /api/data, lines 212-251
GetData(ok) ==
    LET l == LoadPreview(Files, ok)
    IN  Serve("data", l.files, IF l.ok THEN 200 ELSE 500)

\* POST /api/data/reset, lines 271-299
ResetData(ok) ==
    LET dataString == ReadProduction(Files, ok)
    IN  IF dataString = "none" THEN Serve("reset", Files, 500)
        ELSE Serve("reset", WritePreviewPath(Files, dataString), 200)

\* GET /api/preview, lines 343-382 and 1079-1086: the preview data is loaded
\* as in GET /api/data, then compiled with the template; a compile that throws
\* is answered with status 500, after the preview file was created
GetPreview(ok) ==
    LET l == LoadPreview(Files, ok)
    IN  Serve("preview", l.files,
              IF l.ok /\ ~builds[l.data].threw THEN 200 ELSE 500)

---------------------------------------------------------------------------
(* The path resolver on its own: getValue and setValue called with the     *)
(* paths the instrumented document emits and with dotted paths             *)

\* the most calls of setValue that are followed on one tree
MaxSets == 2

NotResolved ==
    [op |-> "none", path |-> "", value |-> Undef, before |-> Null,
     result |-> Undef, threw |-> FALSE, sets |-> 0]

ServiceItem(title) == Obj([title |-> Str(title), description |-> Str("d")])

\* content trees: sequences the edit paths address (lines 454-468, 502), and
\* scalars of every kind at the top level
PathTree(services) ==
    Obj([services |-> Obj([heading |-> Str("H"), items |-> Arr(services)]),
         standards |-> Obj([items |-> Arr(<<Str("s0"), Str("s1")>>)]),
         portfolio |-> Obj([images |-> Arr(<<Obj([src |-> Str("a.jpg")])>>)]),
         e |-> Str(""), z |-> Num(0), n |-> Null, f |-> Bool(FALSE),
         s |-> Str("S"), k |-> Num(5)])

PathTrees ==
    { PathTree(<<ServiceItem("A"), ServiceItem("B"), ServiceItem("C")>>),
      PathTree(<<ServiceItem("A")>>),
      PathTree(<<>>) }

\* `services.items[${idx}].title`, `standards.items[${idx}]` and
\* `portfolio.images[${idx}].src` as the document writes them: the sequence,
\* the index, and the field of the element ("" for the element itself)
EditPath(seq, idx, field) ==
    seq \o "[" \o ToString(idx) \o "]" \o (IF field = "" THEN "" ELSE "." \o field)

EmittedPaths ==
    { [seq |-> "services.items", idx |-> 0, field |-> "title"],
      [seq |-> "services.items", idx |-> 2, field |-> "title"],
      [seq |-> "services.items", idx |-> 1, field |-> "description"],
      [seq |-> "standards.items", idx |-> 1, field |-> ""],
      [seq |-> "portfolio.images", idx |-> 0, field |-> "src"] }

GetPaths ==
    {EditPath(e.seq, e.idx, e.field) : e \in EmittedPaths}
    \cup {"services.heading", "services.items.2.title", "s.x", "e.x", "m.x"}

SetPaths ==
    {EditPath(e.seq, e.idx, e.field) : e \in EmittedPaths}
    \cup {"services.heading", "services.items.0.title", "m.x.y", "m.x",
          "e.x", "z.x", "n.x", "f.x", "s.x", "k.x.y"}

InitPath ==
    /\ content \in PathTrees
    /\ resolved = NotResolved

\* getValue(content, path)
GetPath(path) ==
    /\ resolved' = [op |-> "get", path |-> path, value |-> Undef, before |-> content,
                    result |-> getValue(content, path), threw |-> FALSE,
                    sets |-> resolved.sets]
    /\ UNCHANGED content
    /\ UNCHANGED <<compileVars, publishVars, served, docVars, deleteVars, reviewVars, scriptVars>>

\* setValue(content, path, value): the tree is changed in place
SetPath(path, value) ==
    /\ resolved.sets < MaxSets
    /\ content' = setValue(content, path, value).v
    /\ resolved' = [op |-> "set", path |-> path, value |-> value, before |-> content,
                    result |-> Undef, threw |-> setValue(content, path, value).threw,
                    sets |-> resolved.sets + 1]
    /\ UNCHANGED <<compileVars, publishVars, served, docVars, deleteVars, reviewVars, scriptVars>>

---------------------------------------------------------------------------
(* The instrumented document: the edit script GET /api/preview injects     *)
(* into the page (editor/server.js 414-1077), run inside the editor's      *)
(* frame                                                                   *)

\* the most runs of setupEditables, the most text-edit modals, and the
\* farthest a drag counter gets from zero, that are followed
MaxSetups == 2
MaxModals == 1
MaxDrag == 1

\* the elements of the page that elementMapping gives a path
TextEls == {"services.heading"}

\* the sections of the page that sectionMap names
Sections == {"hero", "services", "portfolio"}

\* the src attributes of the images of .portfolio-grid, in rendered order
Gallery == <<"images/a.jpg?v=2">>

\* the part of s after its last c (s.split(c).pop())
RECURSIVE AfterLast(_, _)
AfterLast(s, c) ==
    LET i == IndexOfFrom(s, c, 1)
    IN  IF i = 0 THEN s ELSE AfterLast(Sub(s, i + 1, Len(s)), c)

\* the part of s before its first c (s.split(c)[0])
BeforeFirst(s, c) ==
    LET i == IndexOfFrom(s, c, 1)
    IN  IF i = 0 THEN s ELSE Sub(s, 1, i - 1)

\* the file name of an image src: what follows the last slash, without the
\* query
FileName(imgSrc) ==
    BeforeFirst(IF Contains(imgSrc, "/") THEN AfterLast(imgSrc, "/") ELSE imgSrc, "?")

HeroImage == "hero.image.src"
PortfolioImage(idx) == EditPath("portfolio.images", idx, "src")

\* the images imageMapping selects, named by their paths
Images == {HeroImage} \cup {PortfolioImage(k - 1) : k \in 1..Len(Gallery)}

\* imageMapping['.portfolio-item img'](el) for the k-th image of a grid whose
\* images have the src attributes srcs
portfolioMapping(srcs, k) ==
    [path |-> PortfolioImage(k - 1), index |-> Num(k - 1),
     filename |-> FileName(srcs[k])]

\* imageMapping[selector](el, index), or { path, index: null }
imageMapping(img) ==
    IF img = HeroImage
    THEN [path |-> img, index |-> Null, filename |-> ""]
    ELSE portfolioMapping(Gallery, CHOOSE j \in 1..Len(Gallery) : PortfolioImage(j - 1) = img)

\* the section an image is in
SectionOfImage(img) == IF img = HeroImage THEN "hero" ELSE "portfolio"

\* the page as the server sends it: nothing of the edit script is in it yet
PlainDocument ==
    [editable  |-> [e \in TextEls |-> FALSE],     \* carries the class editable
     listeners |-> [e \in TextEls |-> 0],         \* click listeners of the live node
     node      |-> [e \in TextEls |-> 0],         \* which clone the live node is
     text      |-> [e \in TextEls |-> 0],         \* innerHTML: 0, or the modal that wrote it
     zones     |-> [i \in Images |-> <<>>],       \* display of each .image-drop-zone
     deleteBtn |-> [i \in Images |-> "absent"],   \* display of .image-delete-btn
     overlays  |-> <<>>,                          \* each .portfolio-drop-overlay
     htmlBtn   |-> [s \in Sections |-> "absent"]] \* display of .edit-html-btn

\* a message posted to the parent window
Message(type, path, index, filename, markup) ==
    [type |-> type, path |-> path, index |-> index, filename |-> filename,
     html |-> markup, newValue |-> 0]

\* the elementEdited message of save(): the text is named by the modal it
\* was typed in
ElementEdited(path, newValue) ==
    [Message("elementEdited", path, Undef, "", <<>>) EXCEPT !.newValue = newValue]

NoEvent == [event |-> "none", target |-> "", out |-> <<>>, threw |-> FALSE, opened |-> 0]

\* what the last event did: the messages it posted, whether a listener
\* threw, how many modals it opened
Event(event, target, out, threw, opened) ==
    [event |-> event, target |-> target, out |-> out, threw |-> threw,
     opened |-> opened]

\* updateVisibility of a button
Display(mode) == IF mode THEN "block" ELSE "none"

\* setupImageDragDrop(imgElement, mapping): one more drop zone and one more
\* set of listeners on the container; the delete button is made once
setupImageDragDrop(d, img, mode) ==
    [zones |-> Append(d.zones[img], "none"),
     deleteBtn |-> IF imageMapping(img).index # Null THEN Display(mode)
                   ELSE d.deleteBtn[img]]

\* setupPortfolioGridDrop(grid): one more overlay, first child of the grid,
\* and one more set of listeners with their own dragCounter
setupPortfolioGridDrop(d) ==
    <<[display |-> "none", dragCounter |-> 0]>> \o d.overlays

\* addEditHtmlButtons(): a button for each section that has none
addEditHtmlButtons(d, mode) ==
    [s \in Sections |-> IF d.htmlBtn[s] = "absent" THEN Display(mode) ELSE d.htmlBtn[s]]

\* setupEditables(), run while editMode is mode
setupEditables(d, mode) ==
    [editable  |-> [e \in TextEls |-> TRUE],
     listeners |-> [e \in TextEls |-> 1],
     node      |-> [e \in TextEls |-> d.node[e] + 1],
     text      |-> d.text,
     zones     |-> [i \in Images |-> setupImageDragDrop(d, i, mode).zones],
     deleteBtn |-> [i \in Images |-> setupImageDragDrop(d, i, mode).deleteBtn],
     overlays  |-> setupPortfolioGridDrop(d),
     htmlBtn   |-> addEditHtmlButtons(d, mode)]

\* n runs of setupEditables, one for each DOMContentLoaded listener
RECURSIVE Setups(_, _, _)
Setups(d, mode, n) == IF n = 0 THEN d ELSE Setups(setupEditables(d, mode), mode, n - 1)

\* enableEditMode(): the setup now, or at DOMContentLoaded
enableEditMode(d, waiting, state) ==
    IF state = "loading"
    THEN [doc |-> d, pending |-> waiting + 1]
    ELSE [doc |-> setupEditables(d, TRUE), pending |-> waiting]

\* disableEditMode()
disableEditMode(d) ==
    [d EXCEPT !.editable = [e \in TextEls |-> FALSE],
              !.deleteBtn = [i \in Images |->
                                IF d.deleteBtn[i] = "absent" THEN "absent" ELSE "none"]]

\* btn._updateVisibility() of every .image-delete-btn
UpdateDeleteButtons(d, mode) ==
    [d EXCEPT !.deleteBtn = [i \in Images |->
                                IF d.deleteBtn[i] = "absent" THEN "absent"
                                ELSE Display(mode)]]

\* the data of the messages the frame receives
Inbound ==
    { Null, Undef, Str("hello"), Obj(<<>>),
      Obj([type |-> Str("ping")]),
      Obj([type |-> Str("toggleEditMode"), enabled |-> Bool(TRUE)]),
      Obj([type |-> Str("toggleEditMode"), enabled |-> Bool(FALSE)]) }

\* e.data.type: reading a property of null or undefined throws
ReadThrows(x) == x.t \in {"null", "undef"}

InitDoc ==
    /\ editMode = FALSE
    /\ readyState = "loading"
    /\ pending = 0
    /\ doc = PlainDocument
    /\ modals = <<>>
    /\ last = NoEvent

\* the message listener
OnMessage(eData) ==
    /\ IF ReadThrows(eData)
       THEN /\ last' = Event("message", "", <<>>, TRUE, 0)
            /\ UNCHANGED <<editMode, doc, pending>>
       ELSE IF GetProp(eData, "type") # Str("toggleEditMode")
       THEN /\ last' = Event("message", "", <<>>, FALSE, 0)
            /\ UNCHANGED <<editMode, doc, pending>>
       ELSE LET enabled == Truthy(GetProp(eData, "enabled"))
                on == enableEditMode(doc, pending, readyState)
            IN  /\ enabled => Len(doc.overlays) + pending < MaxSetups
                /\ editMode' = enabled
                /\ doc' = UpdateDeleteButtons(IF enabled THEN on.doc
                                              ELSE disableEditMode(doc), enabled)
                /\ pending' = IF enabled THEN on.pending ELSE pending
                /\ last' = Event("toggle", "", <<>>, FALSE, 0)
    /\ UNCHANGED <<readyState, modals>>
    /\ UNCHANGED outsideDoc

\* DOMContentLoaded: the setups that were waiting for it run
DOMContentLoaded ==
    /\ readyState = "loading"
    /\ readyState' = "complete"
    /\ doc' = Setups(doc, editMode, pending)
    /\ pending' = 0
    /\ last' = Event("DOMContentLoaded", "", <<>>, FALSE, 0)
    /\ UNCHANGED <<editMode, modals>>
    /\ UNCHANGED outsideDoc

\* no modal covers the page
NoModal == \A m \in 1..Len(modals) : ~modals[m].inBody

\* editElement(element, path): the modal, with its keydown listener on the
\* document
editElement(d, e) ==
    [el |-> e, node |-> d.node[e], typed |-> FALSE, inBody |-> TRUE,
     keydown |-> TRUE, dismissed |-> FALSE, emitted |-> FALSE, wrote |-> FALSE]

\* save() of modal m: the element and the message when the text was changed,
\* then removeChild, which throws when the modal is no longer in the body
save(d, ms, m) ==
    LET modal == ms[m]
        hit == modal.typed
    IN  [doc |-> IF hit /\ modal.node = d.node[modal.el]
                 THEN [d EXCEPT !.text[modal.el] = m] ELSE d,
         modals |-> [ms EXCEPT ![m].wrote = @ \/ hit,
                               ![m].emitted = @ \/ hit,
                               ![m].inBody = FALSE],
         out |-> IF hit THEN <<ElementEdited(modal.el, m)>>
                 ELSE <<>>,
         threw |-> ~modal.inBody]

\* cancel() of modal m: removeChild alone
cancel(d, ms, m) ==
    [doc |-> d,
     modals |-> IF ms[m].inBody
                THEN [ms EXCEPT ![m].inBody = FALSE, ![m].dismissed = TRUE]
                ELSE ms,
     out |-> <<>>,
     threw |-> ~ms[m].inBody]

\* handleKeyDown of modal m: the listener removes itself after cancel() or
\* save() returned
handleKeyDown(d, ms, m, key) ==
    LET r == IF key = "Escape" THEN cancel(d, ms, m) ELSE save(d, ms, m)
    IN  [r EXCEPT !.modals = IF r.threw THEN @ ELSE [@ EXCEPT ![m].keydown = FALSE]]

\* a keydown event on the document: the listeners run in the order they were
\* added; a listener that throws does not keep the next from running
RECURSIVE DispatchKey(_, _, _, _)
DispatchKey(r, ms, m, key) ==
    IF m > Len(ms) THEN r
    ELSE IF ~ms[m].keydown THEN DispatchKey(r, ms, m + 1, key)
    ELSE LET h == handleKeyDown(r.doc, r.modals, m, key)
         IN  DispatchKey([doc |-> h.doc, modals |-> h.modals,
                          out |-> r.out \o h.out, threw |-> r.threw \/ h.threw],
                         ms, m + 1, key)

\* a click on a text element: each click listener of the live node opens a
\* modal when edit mode is on
Click(e) ==
    LET opened == IF editMode THEN doc.listeners[e] ELSE 0
    IN  /\ NoModal
        /\ Len(modals) + opened <= MaxModals
        /\ modals' = modals \o [k \in 1..opened |-> editElement(doc, e)]
        /\ last' = Event("click", e, <<>>, FALSE, opened)
        /\ UNCHANGED <<editMode, readyState, pending, doc>>
        /\ UNCHANGED outsideDoc

\* the user changes the text in the textarea of modal m
Type(m) ==
    /\ modals[m].inBody
    /\ ~modals[m].typed
    /\ modals' = [modals EXCEPT ![m].typed = TRUE]
    /\ last' = Event("type", modals[m].el, <<>>, FALSE, 0)
    /\ UNCHANGED <<editMode, readyState, pending, doc>>
    /\ UNCHANGED outsideDoc

\* a click on Save
SaveClick(m) ==
    /\ modals[m].inBody
    /\ doc' = save(doc, modals, m).doc
    /\ modals' = save(doc, modals, m).modals
    /\ last' = Event("save", modals[m].el, save(doc, modals, m).out, FALSE, 0)
    /\ UNCHANGED <<editMode, readyState, pending>>
    /\ UNCHANGED outsideDoc

\* a click on Cancel, or on the backdrop of the modal
Dismiss(m, how) ==
    /\ modals[m].inBody
    /\ modals' = cancel(doc, modals, m).modals
    /\ last' = Event(how, modals[m].el, <<>>, FALSE, 0)
    /\ UNCHANGED <<editMode, readyState, pending, doc>>
    /\ UNCHANGED outsideDoc

\* Escape, or Enter with Ctrl or Meta, anywhere in the document
KeyDown(key) ==
    LET r == DispatchKey([doc |-> doc, modals |-> modals, out |-> <<>>,
                          threw |-> FALSE], modals, 1, key)
    IN  /\ doc' = r.doc
        /\ modals' = r.modals
        /\ last' = Event(key, "", r.out, r.threw, 0)
        /\ UNCHANGED <<editMode, readyState, pending>>
        /\ UNCHANGED outsideDoc

\* the elements from the target of a drag event up to the grid
Chain(target) ==
    IF target = "grid" THEN <<"grid">>
    ELSE IF SectionOfImage(target) = "portfolio" THEN <<target, "grid">>
    ELSE <<target>>

\* whether setup has put drag listeners on the element
HasListeners(d, element) ==
    IF element = "grid" THEN Len(d.overlays) > 0 ELSE Len(d.zones[element]) > 0

\* (mutant) the event reaches every element of the chain
PropagateToRoot(d, target) ==
    {Chain(target)[k] : k \in 1..Len(Chain(target))}

\* the elements whose listeners a drag event runs: it bubbles up to the
\* first element with listeners, which call e.stopPropagation()
Propagate(d, target) ==
    {Chain(target)[k] : k \in {j \in 1..Len(Chain(target)) :
                                 \A i \in 1..(j - 1) : ~HasListeners(d, Chain(target)[i])}}

\* the listeners of the image containers the event reaches: show, or hide,
\* every drop zone of the container
ZonesAfter(d, reached, show, mode) ==
    [i \in Images |->
        IF i \notin reached THEN d.zones[i]
        ELSE IF show THEN (IF mode THEN [k \in 1..Len(d.zones[i]) |-> "flex"]
                           ELSE d.zones[i])
        ELSE [k \in 1..Len(d.zones[i]) |-> "none"]]

\* dragenter on an image container (dragover does the same) or on the grid
DragEnter(target) ==
    LET reached == Propagate(doc, target)
        grid == "grid" \in reached /\ editMode
    IN  /\ NoModal
        /\ grid => \A k \in 1..Len(doc.overlays) : doc.overlays[k].dragCounter < MaxDrag
        /\ doc' = [doc EXCEPT
               !.zones = ZonesAfter(doc, reached, TRUE, editMode),
               !.overlays = IF ~grid THEN @
                            ELSE [k \in 1..Len(@) |->
                                    [display |-> IF @[k].dragCounter + 1 = 1
                                                 THEN "flex" ELSE @[k].display,
                                     dragCounter |-> @[k].dragCounter + 1]]]
        /\ last' = Event("dragenter", target, <<>>, FALSE, 0)
        /\ UNCHANGED <<editMode, readyState, pending, modals>>
        /\ UNCHANGED outsideDoc

\* dragleave
DragLeave(target) ==
    LET reached == Propagate(doc, target)
        grid == "grid" \in reached /\ editMode
    IN  /\ NoModal
        /\ grid => \A k \in 1..Len(doc.overlays) : doc.overlays[k].dragCounter > -MaxDrag
        /\ doc' = [doc EXCEPT
               !.zones = ZonesAfter(doc, reached, FALSE, editMode),
               !.overlays = IF ~grid THEN @
                            ELSE [k \in 1..Len(@) |->
                                    [display |-> IF @[k].dragCounter - 1 = 0
                                                 THEN "none" ELSE @[k].display,
                                     dragCounter |-> @[k].dragCounter - 1]]]
        /\ last' = Event("dragleave", target, <<>>, FALSE, 0)
        /\ UNCHANGED <<editMode, readyState, pending, modals>>
        /\ UNCHANGED outsideDoc

\* the kinds of file a drop carries ("" when it carries none)
FileTypes == {"image/png", "text/plain", ""}

\* files.length > 0 && files[0].type.startsWith('image/')
IsImageFile(type) == StartsAt(type, "image/", 1)

\* drop: every drop listener of a container it reaches posts imageUpload, every
\* drop listener of the grid, when it reaches the grid, addPortfolioImage
Drop(target, type) ==
    LET reached == Propagate(doc, target)
        grid == "grid" \in reached /\ editMode
        image == editMode /\ IsImageFile(type)
        uploads == IF image /\ target \in Images \cap reached
                   THEN [k \in 1..Len(doc.zones[target]) |->
                           Message("imageUpload", imageMapping(target).path, Undef,
                                   "portfolio_<timestamp>.<ext>", <<>>)]
                   ELSE <<>>
        additions == IF image /\ "grid" \in reached
                     THEN [k \in 1..Len(doc.overlays) |->
                             Message("addPortfolioImage", "", Undef,
                                     "portfolio_<timestamp>.<ext>", <<>>)]
                     ELSE <<>>
    IN  /\ NoModal
        /\ doc' = [doc EXCEPT
               !.zones = ZonesAfter(doc, reached, FALSE, editMode),
               !.overlays = IF ~grid THEN @
                            ELSE [k \in 1..Len(@) |->
                                    [display |-> "none", dragCounter |-> 0]]]
        /\ last' = [Event("drop", target, uploads \o additions, FALSE, 0)
                    EXCEPT !.event = IF IsImageFile(type) THEN "drop" ELSE "dropOther"]
        /\ UNCHANGED <<editMode, readyState, pending, modals>>
        /\ UNCHANGED outsideDoc

\* mouseenter and mouseleave on the container of a portfolio image
Hover(img, entering) ==
    /\ NoModal
    /\ imageMapping(img).index # Null
    /\ Len(doc.zones[img]) > 0
    /\ doc' = [doc EXCEPT !.deleteBtn[img] =
                  IF entering THEN (IF editMode THEN "block" ELSE @)
                  ELSE (IF ~editMode THEN "none" ELSE @)]
    /\ last' = Event(IF entering THEN "mouseenter" ELSE "mouseleave", img,
                     <<>>, FALSE, 0)
    /\ UNCHANGED <<editMode, readyState, pending, modals>>
    /\ UNCHANGED outsideDoc

\* deletePortfolioImage(index, filename)
deletePortfolioImage(index, filename) ==
    Message("deletePortfolioImage", "", index, filename, <<>>)

\* the ways to press a button: with the pointer, which a modal keeps from
\* the page below it, or with the keyboard (focus moved to the button, then
\* Enter or Space), which it does not
Ways == {"pointer", "keyboard"}

\* a click on the delete button of a portfolio image, and the answer to
\* confirm()
ClickDelete(img, confirmed, how) ==
    /\ how = "pointer" => NoModal
    /\ doc.deleteBtn[img] = "block"
    /\ last' = Event("delete", img,
                     IF confirmed
                     THEN <<deletePortfolioImage(imageMapping(img).index,
                                                 imageMapping(img).filename)>>
                     ELSE <<>>, FALSE, 0)
    /\ UNCHANGED <<editMode, readyState, pending, doc, modals>>
    /\ UNCHANGED outsideDoc

\* the images of a section, in document order
ImagesOf(s) ==
    CASE s = "hero" -> <<HeroImage>>
      [] s = "portfolio" -> [k \in 1..Len(Gallery) |-> PortfolioImage(k - 1)]
      [] OTHER -> <<>>

\* the controls the edit script put next to an image
ImageControls(d, img) ==
    [k \in 1..Len(d.zones[img]) |-> "image-drop-zone"]
    \o (IF d.deleteBtn[img] = "absent" THEN <<>> ELSE <<"image-delete-btn">>)

RECURSIVE ControlsOfImages(_, _, _)
ControlsOfImages(d, imgs, k) ==
    IF k > Len(imgs) THEN <<>>
    ELSE ImageControls(d, imgs[k]) \o ControlsOfImages(d, imgs, k + 1)

\* the markup of a section, reduced to the class names of the controls the
\* edit script put into it
Controls(d, s) ==
    (IF s = "portfolio" THEN [k \in 1..Len(d.overlays) |-> "portfolio-drop-overlay"]
     ELSE <<>>)
    \o ControlsOfImages(d, ImagesOf(s), 1)
    \o (IF d.htmlBtn[s] = "absent" THEN <<>> ELSE <<"edit-html-btn">>)

\* clone.querySelector('.edit-html-btn').remove(): the first one only
RemoveFirst(controls, class) ==
    IF \E k \in 1..Len(controls) : controls[k] = class
    THEN LET k == CHOOSE j \in 1..Len(controls) :
                     controls[j] = class /\ \A i \in 1..(j - 1) : controls[i] # class
         IN  SubSeq(controls, 1, k - 1) \o SubSeq(controls, k + 1, Len(controls))
    ELSE controls

\* editSectionHtml(sectionElement, sectionPath)
editSectionHtml(d, s) ==
    Message("editSectionHtml", s, Undef, "", RemoveFirst(Controls(d, s), "edit-html-btn"))

\* a click on the Edit HTML button of a section
ClickEditHtml(s, how) ==
    /\ how = "pointer" => NoModal
    /\ doc.htmlBtn[s] = "block"
    /\ last' = Event("editHtml", s, <<editSectionHtml(doc, s)>>, FALSE, 0)
    /\ UNCHANGED <<editMode, readyState, pending, doc, modals>>
    /\ UNCHANGED outsideDoc

---------------------------------------------------------------------------
(* Deleting a portfolio image: the delete button of the instrumented       *)
(* document (editor/server.js 778-798, 853-865) and the editor that        *)
(* receives its message                                                    *)

\* the src values an image of the editor's array can have
Srcs == {"a.jpg", "b.jpg", "c.jpg"}

\* the editor's portfolio.images arrays: up to three images, no src twice
ImageArrays ==
    {array \in UNION {[1..n -> {[src |-> x] : x \in Srcs}] : n \in 0..Cardinality(Srcs)} :
        \A i, j \in DOMAIN array : i # j => array[i] # array[j]}

\* the src attributes of the portfolio images of a rendered page: pages that
\* were rendered from the editor's array, and pages rendered from an older,
\* longer one
RenderedGalleries ==
    { <<"a.jpg", "b.jpg", "c.jpg">>,
      <<"images/c.jpg", "images/a.jpg?v=2">>,
      <<"p.jpg", "q.jpg", "r.jpg", "s.jpg", "t.jpg", "images/b.jpg?v=1">> }

NotReceived == [type |-> "none", index |-> Undef, filename |-> "", before |-> <<>>]

\* seq without its element k
RemoveAt(seq, k) == SubSeq(seq, 1, k - 1) \o SubSeq(seq, k + 1, Len(seq))

\* the positions of the elements whose src has the file name
Matching(array, filename) ==
    {k \in 1..Len(array) : FileName(array[k].src) = filename}

\* (mutant) the receiver trusts the index and uses the file name only when
\* the index is out of range
DeleteByIndex(array, index, filename) ==
    IF index >= 0 /\ index < Len(array) THEN RemoveAt(array, index + 1)
    ELSE IF Matching(array, filename) # {}
    THEN RemoveAt(array, CHOOSE k \in Matching(array, filename) :
                             \A j \in Matching(array, filename) : k <= j)
    ELSE array

\* the receiver of deletePortfolioImage {index, filename}: the element whose
\* file name matches is removed; the index is used when none matches
Reconcile(array, index, filename) ==
    IF Matching(array, filename) # {}
    THEN RemoveAt(array, CHOOSE k \in Matching(array, filename) :
                             \A j \in Matching(array, filename) : k <= j)
    ELSE IF index >= 0 /\ index < Len(array) THEN RemoveAt(array, index + 1)
    ELSE array

InitDelete ==
    /\ rendered \in RenderedGalleries
    /\ portfolioImages \in ImageArrays
    /\ received = NotReceived

\* a click on the delete button of the k-th rendered image, confirmed: the
\* document posts the index and the file name it captured at setup, and the
\* editor reconciles its array
DeleteClicked(k) ==
    LET mapping == portfolioMapping(rendered, k)
        message == deletePortfolioImage(mapping.index, mapping.filename)
    IN  /\ received' = [type |-> message.type, index |-> message.index,
                        filename |-> message.filename, before |-> portfolioImages]
        /\ portfolioImages' = Reconcile(portfolioImages, message.index.v,
                                        message.filename)
        /\ UNCHANGED rendered
        /\ UNCHANGED <<compileVars, publishVars, served, pathVars, docVars, reviewVars, scriptVars>>

\* the same click, with confirm() answered no: nothing is posted
DeleteDeclined(k) ==
    /\ k \in 1..Len(rendered)
    /\ received' = [NotReceived EXCEPT !.type = "declined"]
    /\ UNCHANGED <<rendered, portfolioImages>>
    /\ UNCHANGED <<compileVars, publishVars, served, pathVars, docVars, reviewVars, scriptVars>>

\* the preview is loaded again: the page is rendered from the editor's array
Reload ==
    /\ rendered' = [k \in 1..Len(portfolioImages) |-> portfolioImages[k].src]
    /\ received' = [NotReceived EXCEPT !.type = "reload"]
    /\ UNCHANGED portfolioImages
    /\ UNCHANGED <<compileVars, publishVars, served, pathVars, docVars, reviewVars, scriptVars>>

\* no page with delete buttons is open
NoDelete ==
    /\ rendered = <<>>
    /\ portfolioImages = <<>>
    /\ received = NotReceived

---------------------------------------------------------------------------
(* GET /api/google-reviews (editor/server.js 303-340): the proxy in front  *)
(* of the external review API                                              *)

\* the most reviews in an answer of the external API that are followed
MaxReviews == 3

\* the reviews the external API can list: each a short text with a rating
ReviewLists ==
    UNION {[1..n -> {"five stars", "four stars"}] : n \in 0..MaxReviews}

\* the status field of the external API's answer
PlacesStatuses ==
    {"OK", "ZERO_RESULTS", "INVALID_REQUEST", "OVER_QUERY_LIMIT",
     "REQUEST_DENIED", "NOT_FOUND", "UNKNOWN_ERROR"}

\* what fetch(url) and response.json() can come to: the API is unreachable
\* (fetch rejects), it answers with an HTTP error, its body is not JSON, or
\* its body is { status, result: { reviews } } with result or reviews
\* possibly missing
PlacesAnswers ==
    {[kind |-> "unreachable", http |-> 0, status |-> "", result |-> "none", reviews |-> <<>>]}
    \cup {[kind |-> "http", http |-> h, status |-> "", result |-> "none", reviews |-> <<>>] :
             h \in {403, 500, 503}}
    \cup {[kind |-> "notJSON", http |-> 200, status |-> "", result |-> "none", reviews |-> <<>>]}
    \cup {[kind |-> "json", http |-> 200, status |-> s, result |-> "none", reviews |-> <<>>] :
             s \in PlacesStatuses}
    \cup {[kind |-> "json", http |-> 200, status |-> s, result |-> "empty", reviews |-> <<>>] :
             s \in PlacesStatuses}
    \cup {[kind |-> "json", http |-> 200, status |-> s, result |-> "reviews", reviews |-> r] :
             s \in PlacesStatuses, r \in ReviewLists}

NotAsked == [kind |-> "none", http |-> 0, status |-> "", result |-> "none", reviews |-> <<>>]

\* no page is loaded in the browser
NoPage == [tree |-> <<>>, dom |-> <<>>, derived |-> <<>>, set |-> FALSE]
\* script.js before renderTestimonials: testimonialsData = [],
\* currentTestimonialIndex = 0, testimonialInterval = null, no item in the
\* container, no interval running, the pointer outside the container
NoCarousel ==
    [n |-> 0, index |-> 0, active |-> {}, interval |-> "null", orphans |-> 0,
     hover |-> FALSE, last |-> [event |-> "none", from |-> 0]]
\* script.js before it runs: IMAGE_BASE_PATH is not defined (neither on
\* window nor as a const), initializeImagePaths was not called. A path is a
\* sequence of characters
NoBoot ==
    [pc |-> "idle", defined |-> FALSE, path |-> <<>>, calls |-> 0, base |-> <<>>,
     listening |-> FALSE]

NoScript == page = NoPage /\ carousel = NoCarousel /\ boot = NoBoot

NoReviews ==
    /\ env = [apiKey |-> "", placeId |-> ""]
    /\ asked = NotAsked
    /\ reviewsResponse = [status |-> 0, error |-> "", reviews |-> <<>>, apiStatus |-> ""]

InitReviews ==
    /\ env \in [apiKey : {"", "key"}, placeId : {"", "place"}]
    /\ asked = NotAsked
    /\ reviewsResponse = [status |-> 0, error |-> "", reviews |-> <<>>, apiStatus |-> ""]

\* res.status(500).json({ error, details })
ReviewsFailure(error) ==
    [status |-> 500, error |-> error, reviews |-> <<>>, apiStatus |-> ""]

\* the handler, for the environment e and what the external API answers
GoogleReviews(e, answer) ==
    IF e.apiKey = "" \/ e.placeId = ""
    THEN ReviewsFailure("Google Places API not configured")
    ELSE IF answer.kind \in {"unreachable", "http", "notJSON"}
    THEN ReviewsFailure("Failed to fetch Google Reviews")
    ELSE IF answer.status # "OK" /\ answer.status # "ZERO_RESULTS"
    THEN ReviewsFailure("Failed to fetch Google Reviews")
    ELSE [status |-> 200, error |-> "",
          reviews |-> IF answer.result = "reviews" THEN answer.reviews ELSE <<>>,
          apiStatus |-> answer.status]

\* one request to the endpoint
GetGoogleReviews(answer) ==
    /\ asked' = IF env.apiKey = "" \/ env.placeId = "" THEN NotAsked ELSE answer
    /\ reviewsResponse' = GoogleReviews(env, answer)
    /\ UNCHANGED env
    /\ UNCHANGED <<compileVars, publishVars, served, pathVars, docVars, deleteVars, scriptVars>>

\* the .env file is edited and the server started again
Configure(e) ==
    /\ env' = e
    /\ asked' = NotAsked
    /\ reviewsResponse' = [status |-> 0, error |-> "", reviews |-> <<>>, apiStatus |-> ""]
    /\ UNCHANGED <<compileVars, publishVars, served, pathVars, docVars, deleteVars, scriptVars>>

---------------------------------------------------------------------------
(* Specifications                                                          *)

\* the compiler on every template and tree of the bounded input sets; no
\* publish request is made
Init ==
    /\ InitCompile
    /\ previewFile = "none"
    /\ productionFile = "v0"
    /\ indexFile = "none"
    /\ blobData = "none"
    /\ blobIndex = "none"
    /\ reqs = [r \in Requests |-> IdleRequest]
    /\ edited = FALSE
    /\ builds = <<>>
    /\ served = NotServed
    /\ content = Null
    /\ resolved = NotResolved
    /\ InitDoc
    /\ NoDelete
    /\ NoReviews
    /\ NoScript

Next ==
    \/ ScalarPass
    \/ EachReplace
    \/ EachSkip
    \/ EachThrow
    \/ EachExit
    \/ SectionOverrides
    \/ CompileAgain

Spec == Init /\ [][Next]_vars

\* one compile of each template and tree: the passes of buildHTML, without
\* the caller's second call
NextCompile ==
    \/ ScalarPass
    \/ EachReplace
    \/ EachSkip
    \/ EachThrow
    \/ EachExit
    \/ SectionOverrides

SpecCompile == Init /\ [][NextCompile]_vars

\* the publish pipeline, publish requests and PUT /api/data in any order
InitP ==
    /\ InitPublish
    /\ frags = <<>>
    /\ data = Null
    /\ html = ""
    /\ pc = "idle"
    /\ lastIndex = 0
    /\ call = 1
    /\ firstResult = [threw |-> FALSE, html |-> ""]
    /\ served = NotServed
    /\ content = Null
    /\ resolved = NotResolved
    /\ InitDoc
    /\ NoDelete
    /\ NoReviews
    /\ NoScript

NextP ==
    \/ \E r \in Requests : StartPublish(r)
    \/ \E r \in Requests : PromoteReadFails(r)
    \/ \E r \in Requests : PromoteWriteFails(r)
    \/ \E r \in Requests : DataUploaded(r)
    \/ \E r \in Requests : DataUploadFails(r)
    \/ \E r \in Requests : BuildSucceeds(r)
    \/ \E r \in Requests : BuildFails(r)
    \/ \E r \in Requests : IndexUploaded(r)
    \/ \E r \in Requests : IndexUploadFails(r)
    \/ \E c \in Contents : PutData(c)

SpecPublish == InitP /\ [][NextP]_vars

\* the data routes and the promotion of publish on every combination of the
\* two snapshot files and the blob being there or not
InitData ==
    /\ previewFile \in Snapshots \cup {"none"}
    /\ productionFile \in Snapshots \cup {"none"}
    /\ blobData \in Snapshots \cup {"none"}
    /\ indexFile = "none"
    /\ blobIndex = "none"
    /\ reqs = [r \in Requests |-> IdleRequest]
    /\ edited = FALSE
    /\ builds = BuildResults
    /\ served = NotServed
    /\ content = Null
    /\ resolved = NotResolved
    /\ InitDoc
    /\ NoDelete
    /\ NoReviews
    /\ NoScript
    /\ frags = <<>>
    /\ data = Null
    /\ html = ""
    /\ pc = "idle"
    /\ lastIndex = 0
    /\ call = 1
    /\ firstResult = [threw |-> FALSE, html |-> ""]

NextData ==
    \/ \E ok \in BOOLEAN : GetOriginal(ok)
    \/ \E ok \in BOOLEAN : GetData(ok)
    \/ \E c \in Contents : PutData(c)
    \/ \E ok \in BOOLEAN : ResetData(ok)
    \/ \E ok \in BOOLEAN : GetPreview(ok)
    \/ \E r \in Requests : StartPublish(r)
    \/ \E r \in Requests : PromoteReadFails(r)

SpecData == InitData /\ [][NextData]_vars

\* calls of the path resolver on the trees and paths of the bounded sets
InitR ==
    /\ InitPath
    /\ InitDoc
    /\ NoDelete
    /\ NoReviews
    /\ NoScript
    /\ served = NotServed
    /\ previewFile = "none"
    /\ productionFile = "none"
    /\ indexFile = "none"
    /\ blobData = "none"
    /\ blobIndex = "none"
    /\ reqs = [r \in Requests |-> IdleRequest]
    /\ edited = FALSE
    /\ builds = <<>>
    /\ frags = <<>>
    /\ data = Null
    /\ html = ""
    /\ pc = "idle"
    /\ lastIndex = 0
    /\ call = 1
    /\ firstResult = [threw |-> FALSE, html |-> ""]

NextR ==
    \/ \E path \in GetPaths : GetPath(path)
    \/ \E path \in SetPaths : SetPath(path, Str("V"))

SpecPath == InitR /\ [][NextR]_vars

\* the instrumented document, the messages it receives and what its user does
InitD ==
    /\ InitDoc
    /\ NoDelete
    /\ NoReviews
    /\ NoScript
    /\ content = Null
    /\ resolved = NotResolved
    /\ served = NotServed
    /\ previewFile = "none"
    /\ productionFile = "none"
    /\ indexFile = "none"
    /\ blobData = "none"
    /\ blobIndex = "none"
    /\ reqs = [r \in Requests |-> IdleRequest]
    /\ edited = FALSE
    /\ builds = <<>>
    /\ frags = <<>>
    /\ data = Null
    /\ html = ""
    /\ pc = "idle"
    /\ lastIndex = 0
    /\ call = 1
    /\ firstResult = [threw |-> FALSE, html |-> ""]

NextD ==
    \/ \E eData \in Inbound : OnMessage(eData)
    \/ DOMContentLoaded
    \/ \E e \in TextEls : Click(e)
    \/ \E m \in 1..Len(modals) : Type(m)
    \/ \E m \in 1..Len(modals) : SaveClick(m)
    \/ \E m \in 1..Len(modals), how \in {"cancel", "backdrop"} : Dismiss(m, how)
    \/ \E key \in {"Escape", "CtrlEnter"} : KeyDown(key)
    \/ \E target \in Images \cup {"grid"} : DragEnter(target)
    \/ \E target \in Images \cup {"grid"} : DragLeave(target)
    \/ \E target \in Images \cup {"grid"}, type \in FileTypes : Drop(target, type)
    \/ \E img \in Images, entering \in BOOLEAN : Hover(img, entering)
    \/ \E img \in Images, confirmed \in BOOLEAN, how \in Ways :
          ClickDelete(img, confirmed, how)
    \/ \E s \in Sections, how \in Ways : ClickEditHtml(s, how)

SpecDoc == InitD /\ [][NextD]_vars

\* the instrumented document with a user who only drags files over it
NextDrag ==
    \/ \E eData \in Inbound : OnMessage(eData)
    \/ DOMContentLoaded
    \/ \E target \in Images \cup {"grid"} : DragEnter(target)
    \/ \E target \in Images \cup {"grid"} : DragLeave(target)
    \/ \E target \in Images \cup {"grid"}, type \in FileTypes : Drop(target, type)

SpecDrag == InitD /\ [][NextDrag]_vars

\* the delete buttons of a rendered page and the editor behind them
InitX ==
    /\ InitDelete
    /\ NoReviews
    /\ NoScript
    /\ InitDoc
    /\ content = Null
    /\ resolved = NotResolved
    /\ served = NotServed
    /\ previewFile = "none"
    /\ productionFile = "none"
    /\ indexFile = "none"
    /\ blobData = "none"
    /\ blobIndex = "none"
    /\ reqs = [r \in Requests |-> IdleRequest]
    /\ edited = FALSE
    /\ builds = <<>>
    /\ frags = <<>>
    /\ data = Null
    /\ html = ""
    /\ pc = "idle"
    /\ lastIndex = 0
    /\ call = 1
    /\ firstResult = [threw |-> FALSE, html |-> ""]

NextX ==
    \/ \E k \in 1..Len(rendered) : DeleteClicked(k)
    \/ \E k \in 1..Len(rendered) : DeleteDeclined(k)
    \/ Reload

SpecDelete == InitX /\ [][NextX]_vars

\* requests to the reviews endpoint
InitG ==
    /\ InitReviews
    /\ NoScript
    /\ InitDoc
    /\ NoDelete
    /\ content = Null
    /\ resolved = NotResolved
    /\ served = NotServed
    /\ previewFile = "none"
    /\ productionFile = "none"
    /\ indexFile = "none"
    /\ blobData = "none"
    /\ blobIndex = "none"
    /\ reqs = [r \in Requests |-> IdleRequest]
    /\ edited = FALSE
    /\ builds = <<>>
    /\ frags = <<>>
    /\ data = Null
    /\ html = ""
    /\ pc = "idle"
    /\ lastIndex = 0
    /\ call = 1
    /\ firstResult = [threw |-> FALSE, html |-> ""]

NextG ==
    \/ \E answer \in PlacesAnswers : GetGoogleReviews(answer)
    \/ \E e \in [apiKey : {"", "key"}, placeId : {"", "place"}] : Configure(e)

SpecReviews == InitG /\ [][NextG]_vars

---------------------------------------------------------------------------
(* Claims about the compiler (specification Spec)                          *)

Template == TemplateText(frags, 1)

\* number of non-overlapping occurrences of a non-empty pat in s
RECURSIVE CountOcc(_, _, _)
CountOcc(s, pat, from) ==
    LET i == IndexOfFrom(s, pat, from)
    IN  IF i = 0 THEN 0 ELSE 1 + CountOcc(s, pat, i + Len(pat))

\* the each-loop is over: the state the section pass starts from
AfterEachLoop == pc = "sections"

\* whether a path addresses something in the tree: every segment is a key of
\* the mapping the segments before it lead to
RECURSIVE PathIn(_, _, _)
PathIn(x, props, i) ==
    \/ i > Len(props)
    \/ /\ x.t = "obj"
       /\ props[i] \in DOMAIN x.v
       /\ PathIn(x.v[props[i]], props, i + 1)

Present(path) == PathIn(data, SplitDot(Trim(path)), 1)

KindsAre(kinds) == \A k \in 1..Len(frags) : frags[k].kind \in kinds

IsArrayPath(path) == getValue(data, path).t = "arr"

\* what the claims say a fragment becomes in the each pass: a block over an
\* array the renderings of its elements in order, a block over anything else
\* nothing, any other fragment what the scalar pass made of it
EachRendering(f) ==
    IF f.kind # "each" THEN ReplaceScalars(f.text, data, 1)
    ELSE IF IsArrayPath(f.path)
    THEN RenderItems(f.block, getValue(data, f.path).v, 1)
    ELSE ""

RECURSIVE EachRenderings(_)
EachRenderings(i) ==
    IF i > Len(frags) THEN "" ELSE EachRendering(frags[i]) \o EachRenderings(i + 1)

\* C2: compiling the same template and tree a second time returns what the
\* first compile returned (the same document, byte for byte, or the same
\* failure): nothing is carried over from the first call
C2_Deterministic ==
    (call = 2 /\ pc \in {"done", "threw"}) => Result = firstResult

\* C2 witness: a second compile has ended with a document that the passes
\* changed (a block was expanded and a section overridden)
C2_Witness ==
    /\ call = 2
    /\ pc = "done"
    /\ \E k \in 1..Len(frags) : frags[k].kind = "each" /\ IsArrayPath(frags[k].path)
    /\ \E k \in 1..Len(frags) : frags[k].kind = "section"
    /\ html # Template
    /\ html = firstResult.html

\* C3: after the scalar pass every placeholder {{P}} whose path P is not
\* present in the tree is still in the document, as often as the template
\* holds it
C3_AbsentPlaceholderKept ==
    pc = "each" =>
        \A k \in 1..Len(frags) :
            (frags[k].kind = "scalar" /\ ~Present(frags[k].path)) =>
                CountOcc(html, frags[k].text, 1) = CountOcc(Template, frags[k].text, 1)

\* C4: in a template whose each-blocks are all closed and all over arrays, the
\* loop replaces every block by the renderings of the array's elements, in
\* array order (nothing for the empty array)
C4_EachOverArray ==
    ( /\ AfterEachLoop
      /\ KindsAre({"text", "scalar", "each", "section"})
      /\ \A k \in 1..Len(frags) : frags[k].kind = "each" => IsArrayPath(frags[k].path) )
    => html = EachRenderings(1)

\* C5: in a template whose each-blocks are all closed and none over an array,
\* every block renders as the empty string: no block text is left
C5_EachOverNonArray ==
    ( /\ AfterEachLoop
      /\ KindsAre({"text", "scalar", "each", "section"})
      /\ \A k \in 1..Len(frags) : frags[k].kind = "each" => ~IsArrayPath(frags[k].path) )
    => html = EachRenderings(1)

\* the section fragments the pattern of the about section is written for:
\* the id attribute before the class attribute
IdThenClass(f) == f.kind = "section" => f.open # "<section class=\"about-section\" id=\"about\">"

AboutHtml == getValue(data, "about.customHtml")

\* what C6 says the document is: the first section with its tags kept and
\* customHtml as its content, everything else as it was
RECURSIVE Overridden(_, _)
Overridden(i, done) ==
    IF i > Len(frags) THEN ""
    ELSE IF frags[i].kind = "section" /\ ~done
    THEN frags[i].open \o AboutHtml.v \o "</section>" \o Overridden(i + 1, TRUE)
    ELSE ReplaceScalars(frags[i].text, data, 1) \o Overridden(i + 1, done)

\* C6: with a non-empty string at about.customHtml, the first about section
\* of the document keeps its opening and closing tag, its content becomes
\* exactly customHtml, and nothing else changes
C6_SectionOverride ==
    ( /\ pc = "done"
      /\ KindsAre({"text", "scalar", "section"})
      /\ \A k \in 1..Len(frags) : IdThenClass(frags[k])
      /\ AboutHtml.t = "str" /\ AboutHtml.v # "" )
    => html = Overridden(1, FALSE)

\* C7: the override pass applied to its own output changes nothing
C7_OverrideIdempotent ==
    pc = "done" => SectionPass(html, data, 1) = html

\* C8: the compile never throws
C8_NeverThrows == pc # "threw"

---------------------------------------------------------------------------
(* Claims about the publish pipeline (specification SpecPublish)           *)

Promoters ==
    {r \in Requests : reqs[r].dataString # "none" /\ reqs[r].outcome # "promoteFailed"}

\* what the latest promotion wrote to data.json (requests start in the order
\* of their numbers)
LastPromoted ==
    reqs[CHOOSE r \in Promoters : \A q \in Promoters : q <= r].dataString

\* every step of the run succeeded, the data.json upload included
FullySucceeded(r) == reqs[r].outcome = "ok" /\ reqs[r].dataOk

\* C1: a publish run whose build failed has called no upload, neither of
\* data.json nor of index.html, and data.json holds the promoted content
C1_NoUploadWhenBuildFails ==
    \A r \in Requests :
        reqs[r].outcome = "buildFailed" =>
            /\ reqs[r].uploads = {}
            /\ productionFile = LastPromoted

\* C9: a publish run whose index.html upload failed answers with a failure,
\* and data.json holds the promoted content
C9_FailedUploadKeepsPromotion ==
    \A r \in Requests :
        reqs[r].outcome = "uploadFailed" =>
            /\ reqs[r].status = 500
            /\ productionFile = LastPromoted

\* C9 witness: the index.html upload of a run failed after it promoted
\* content other than what data.json held before
C9_Witness ==
    \E r \in Requests :
        /\ reqs[r].outcome = "uploadFailed"
        /\ reqs[r].dataString # "v0"
        /\ productionFile = reqs[r].dataString

\* C10: while the preview is not edited, once a publish run has succeeded in
\* every step, data.json and the two blobs are what one successful publish of
\* the preview produces, whatever the runs before it and after it did
C10_RetryIdempotent ==
    (~edited /\ \E r \in Requests : FullySucceeded(r)) =>
        /\ productionFile = previewFile
        /\ blobData = previewFile
        /\ blobIndex = BuildScript(previewFile).html

\* C10 witness: the first run failed at the index.html upload and the retry
\* succeeded
C10_Witness ==
    /\ ~edited
    /\ reqs[1].outcome = "uploadFailed"
    /\ FullySucceeded(2)
    /\ previewFile # "v0"

---------------------------------------------------------------------------
(* Claims about the data routes (specification SpecData)                   *)

\* C11: no answer of GET /api/data/original, GET /api/data, PUT /api/data,
\* POST /api/data/reset or GET /api/preview, whatever its status, follows a
\* change of data.json by that handler
C11_DataRoutesKeepProduction == served.changed # "data.json"

\* C11 witness: a reset was answered with success and changed the preview
\* file while data.json holds content
C11_Witness ==
    /\ served.route = "reset"
    /\ served.status = 200
    /\ served.changed = "data-preview.json"
    /\ productionFile # "none"
    /\ previewFile = productionFile

---------------------------------------------------------------------------
(* Claims about the path resolver (specification SpecPath)                 *)

\* the element of a sequence that an emitted path addresses: its field, or
\* the element itself
Addressed(tree, e) ==
    LET element == getValue(tree, e.seq).v[e.idx + 1]
    IN  IF e.field = "" THEN element ELSE GetProp(element, e.field)

\* C12: get with a path the document emits, services.items[i].title,
\* standards.items[i] or portfolio.images[i].src, on a tree whose sequence has
\* an element i, returns the field of that element (the element itself for
\* standards.items[i])
C12_BracketIndexResolves ==
    \A e \in EmittedPaths :
        ( /\ resolved.op = "get"
          /\ resolved.path = EditPath(e.seq, e.idx, e.field)
          /\ getValue(resolved.before, e.seq).t = "arr"
          /\ e.idx < Len(getValue(resolved.before, e.seq).v) )
        => resolved.result = Addressed(resolved.before, e)

\* the segments of a path before its last one
Intermediates(path) == SubSeq(SplitDot(path), 1, Len(SplitDot(path)) - 1)

\* what the first i segments of a path lead to in a tree of mappings
RECURSIVE Follow(_, _, _)
Follow(x, keys, i) ==
    IF i = 0 THEN x
    ELSE LET up == Follow(x, keys, i - 1)
         IN  IF up.t = "obj" /\ keys[i] \in DOMAIN up.v THEN up.v[keys[i]] ELSE Undef

\* an intermediate segment of the path holds a scalar
ScalarOnPath(tree, path) ==
    \E i \in 1..Len(Intermediates(path)) :
        Follow(tree, Intermediates(path), i).t \in {"str", "num", "bool"}

\* every intermediate segment of the path holds a mapping, or is missing
MappingsOnPath(tree, path) ==
    \A i \in 1..Len(Intermediates(path)) :
        Follow(tree, Intermediates(path), i).t \in {"obj", "undef"}

\* C13: set through intermediate segments that are mappings or missing makes
\* the missing mappings and writes the value; set through an intermediate
\* segment that holds a scalar fails and leaves the tree as it was
C13_SetFailsOnScalar ==
    resolved.op = "set" =>
        /\ MappingsOnPath(resolved.before, resolved.path) =>
               /\ ~resolved.threw
               /\ getValue(content, resolved.path) = resolved.value
        /\ ScalarOnPath(resolved.before, resolved.path) =>
               /\ resolved.threw
               /\ content = resolved.before

---------------------------------------------------------------------------
(* Claims about the instrumented document (specifications SpecDoc and      *)
(* SpecDrag)                                                               *)

\* how many of the messages are of the type
CountType(out, type) == Cardinality({k \in 1..Len(out) : out[k].type = type})

\* C14: once setup has run, however many times, each user action is handled
\* by one handler: a click on a text element in edit mode opens one modal, an
\* image file dropped on an image posts one imageUpload, and one dropped on
\* the gallery posts one addPortfolioImage
C14_SetupIdempotent ==
    /\ (last.event = "click" /\ editMode /\ doc.node[last.target] > 0)
       => last.opened = 1
    /\ (last.event = "drop" /\ editMode /\ last.target \in Images
          /\ HasListeners(doc, last.target))
       => CountType(last.out, "imageUpload") = 1
    /\ (last.event = "drop" /\ editMode /\ last.target = "grid"
          /\ HasListeners(doc, "grid"))
       => CountType(last.out, "addPortfolioImage") = 1

\* C15: while edit mode is off no text element carries the class editable,
\* and no delete button, Edit HTML button, image drop zone or portfolio drop
\* overlay is displayed
C15_HiddenWhenOff ==
    ~editMode =>
        /\ \A e \in TextEls : ~doc.editable[e]
        /\ \A i \in Images : doc.deleteBtn[i] \in {"absent", "none"}
        /\ \A s \in Sections : doc.htmlBtn[s] \in {"absent", "none"}
        /\ \A i \in Images : \A k \in 1..Len(doc.zones[i]) : doc.zones[i][k] = "none"
        /\ \A k \in 1..Len(doc.overlays) : doc.overlays[k].display = "none"

\* C16: a modal dismissed by Escape, by a click on the backdrop or by Cancel
\* never posts elementEdited and never changes its element, at the dismissal
\* or later
C16_DismissedModalSilent ==
    \A m \in 1..Len(modals) :
        modals[m].dismissed => ~modals[m].emitted /\ ~modals[m].wrote

\* the classes of the controls the edit script puts into the page
InjectedControls ==
    {"edit-html-btn", "image-delete-btn", "image-drop-zone", "portfolio-drop-overlay"}

\* C17: the html of every editSectionHtml message holds none of the controls
\* the edit script put into the section
C17_ControlsStripped ==
    \A k \in 1..Len(last.out) :
        last.out[k].type = "editSectionHtml" =>
            \A j \in 1..Len(last.out[k].html) : last.out[k].html[j] \notin InjectedControls

\* C18: in edit mode an image file dropped on an image posts imageUpload with
\* the path of that image and no addPortfolioImage; dropped on the gallery
\* outside the images it posts addPortfolioImage, with no path and no index,
\* and no imageUpload; no event posts both
C18_DropTargetDecides ==
    /\ (last.event = "drop" /\ editMode /\ last.target \in Images
          /\ HasListeners(doc, last.target))
       => /\ last.out # <<>>
          /\ \A k \in 1..Len(last.out) :
                /\ last.out[k].type = "imageUpload"
                /\ last.out[k].path = imageMapping(last.target).path
    /\ (last.event = "drop" /\ editMode /\ last.target = "grid"
          /\ HasListeners(doc, "grid"))
       => /\ last.out # <<>>
          /\ \A k \in 1..Len(last.out) :
                /\ last.out[k].type = "addPortfolioImage"
                /\ last.out[k].path = ""
                /\ last.out[k].index = Undef
    /\ ~(CountType(last.out, "imageUpload") > 0
         /\ CountType(last.out, "addPortfolioImage") > 0)

\* an image file was dropped, in edit mode, on an image of the gallery, whose
\* container and grid both have their drop listeners
C18_Witness ==
    /\ last.event = "drop"
    /\ editMode
    /\ last.target = PortfolioImage(0)
    /\ HasListeners(doc, "grid")
    /\ CountType(last.out, "imageUpload") > 0

\* C20: a message with no data, with no type or with a type the document does
\* not know raises no exception, leaves the edit-mode flag and the document
\* as they were, and posts nothing
C20_BadMessageDropped ==
    [][last'.event = "message" =>
          /\ ~last'.threw
          /\ editMode' = editMode
          /\ doc' = doc
          /\ modals' = modals
          /\ last'.out = <<>>]_vars

---------------------------------------------------------------------------
(* Claims about deleting a portfolio image (specification SpecDelete)      *)

\* the elements of the array other than those with the file name, in order
Others(array, filename) ==
    SelectSeq(array, LAMBDA el : FileName(el.src) # filename)

\* C19: on deletePortfolioImage {index, filename} the element whose src has
\* that file name is removed, whatever the index says; the index decides only
\* when no element has the file name. From [a.jpg, b.jpg, c.jpg] the message
\* {index: 5, filename: b.jpg} leaves [a.jpg, c.jpg]
C19_DeleteByFilename ==
    received.type = "deletePortfolioImage" =>
        /\ Matching(received.before, received.filename) # {}
           => portfolioImages = Others(received.before, received.filename)
        /\ ( /\ Matching(received.before, received.filename) = {}
             /\ received.index.v < Len(received.before) )
           => /\ Len(portfolioImages) = Len(received.before) - 1
              /\ \A k \in 1..Len(portfolioImages) :
                    portfolioImages[k] =
                        received.before[IF k <= received.index.v THEN k ELSE k + 1]
        /\ ( /\ received.before = <<[src |-> "a.jpg"], [src |-> "b.jpg"], [src |-> "c.jpg"]>>
             /\ received.index = Num(5)
             /\ received.filename = "b.jpg" )
           => portfolioImages = <<[src |-> "a.jpg"], [src |-> "c.jpg"]>>

\* the stale message of the example was received: index 5, file name b.jpg,
\* the array holding a.jpg, b.jpg, c.jpg
C19_Witness ==
    /\ received.type = "deletePortfolioImage"
    /\ received.before = <<[src |-> "a.jpg"], [src |-> "b.jpg"], [src |-> "c.jpg"]>>
    /\ received.index = Num(5)
    /\ received.filename = "b.jpg"
    /\ portfolioImages = <<[src |-> "a.jpg"], [src |-> "c.jpg"]>>

---------------------------------------------------------------------------
(* Claims about the reviews endpoint (specification SpecReviews)           *)

\* C21: when the external API was asked and was unreachable, answered with
\* an HTTP error or an error status, or found no reviews, the endpoint
\* serves an empty review list and no 500
C21_SoftFailure ==
    ( \/ asked.kind \in {"unreachable", "http", "notJSON"}
      \/ asked.kind = "json" /\ asked.status # "OK" /\ asked.reviews = <<>> )
    => /\ reviewsResponse.status = 200
       /\ reviewsResponse.reviews = <<>>

---------------------------------------------------------------------------
(* Edit paths of the repeated elements: the three lists of the page, as    *)
(* the compile renders them, and the indices the edit script derives       *)

\* the longest list of the content tree
MaxItems == 2

\* the lists of the content tree and of the page
Lists == {"services", "standards", "portfolio"}

\* the array of a list, and the fields its elements are edited by ("" for
\* the element itself)
ArrayOf(l) ==
    CASE l = "services" -> "services.items"
      [] l = "standards" -> "standards.items"
      [] l = "portfolio" -> "portfolio.images"

FieldsOf(l) ==
    CASE l = "services" -> {"title", "description"}
      [] l = "standards" -> {""}
      [] l = "portfolio" -> {"src"}

\* The markup of a list in the page: whether the container the edit script
\* looks for (.services-grid, .standards-list, .portfolio-grid) is around
\* it, and its children in document order: "item" for a .service-item, an li
\* or a .portfolio-item, "other" for any other element
TemplateList(n) == [wrapped |-> TRUE, children |-> [k \in 1..n |-> "item"]]

\* customHtml of a section, as an editor may write it with Edit HTML: none,
\* the items without their container, a heading before the item, and one
\* item more than the tree has
NoCustomHtml == [wrapped |-> FALSE, children |-> <<"none">>]

CustomLists ==
    { NoCustomHtml,
      [wrapped |-> FALSE, children |-> <<"item">>],
      [wrapped |-> TRUE, children |-> <<"other", "item">>],
      [wrapped |-> TRUE, children |-> [k \in 1..(MaxItems + 1) |-> "item"]] }

\* the trees a page is rendered from: the length of each array and the
\* customHtml of each section
PageTrees == [Lists -> [n : 0..MaxItems, customHtml : CustomLists]]

\* buildHTML for one list: the each-block of the template gives one item
\* per element of the array, in array order, inside the container; a truthy
\* customHtml of the section replaces the content of the section
RenderList(t) ==
    IF t.customHtml # NoCustomHtml THEN t.customHtml ELSE TemplateList(t.n)

\* the positions of the items among the children
ItemsOf(list) == {c \in 1..Len(list.children) : list.children[c] = "item"}

\* Array.from(grid.querySelectorAll('.service-item')).indexOf(item), with
\* items = [] when el.closest('.services-grid') is null (indexOf is then -1);
\* the same for .portfolio-grid and .portfolio-item
GridIndex(list, c) ==
    IF list.wrapped THEN Cardinality({b \in ItemsOf(list) : b < c}) ELSE 0 - 1

\* Array.from(list.children).indexOf(el) for an li of .standards-list
ChildIndex(list, c) == c - 1

\* the elements the selector of a list finds: `.standards-list li` needs
\* the list around the li, the other two selectors only the item
Selected(l, list) ==
    IF l = "standards" /\ ~list.wrapped THEN {} ELSE ItemsOf(list)

\* elementMapping / imageMapping for the item at child position c
DerivedIndex(l, list, c) ==
    IF l = "standards" THEN ChildIndex(list, c) ELSE GridIndex(list, c)

\* setupEditables and setupImageDragDrop over the three lists: for every
\* element a selector finds, the path its function returns; every such path
\* is a non-empty string, so `if (path)` lets every element through.
\* k: the element's place among the rendered items of its list, from 0
DerivePaths(dom) ==
    UNION { UNION { { [list |-> l, field |-> f,
                       k |-> Cardinality({b \in ItemsOf(dom[l]) : b < c}),
                       idx |-> DerivedIndex(l, dom[l], c),
                       path |-> EditPath(ArrayOf(l), DerivedIndex(l, dom[l], c), f)] :
                      f \in FieldsOf(l) } :
                    c \in Selected(l, dom[l]) } :
            l \in Lists }

\* GET /api/preview of a tree, loaded in the frame (once in a behaviour):
\* the page as compiled, nothing derived yet
LoadPage(t) ==
    /\ page = NoPage
    /\ page' = [tree |-> t, dom |-> [l \in Lists |-> RenderList(t[l])],
                derived |-> {}, set |-> FALSE]
    /\ UNCHANGED <<carousel, boot>>
    /\ UNCHANGED <<compileVars, publishVars, served, pathVars, docVars, deleteVars, reviewVars>>

\* toggleEditMode{enabled: true} on a loaded page: the paths are derived
SetupPage ==
    /\ page.dom # <<>>
    /\ page' = [page EXCEPT !.derived = DerivePaths(page.dom), !.set = TRUE]
    /\ UNCHANGED <<carousel, boot>>
    /\ UNCHANGED <<compileVars, publishVars, served, pathVars, docVars, deleteVars, reviewVars>>

InitS ==
    /\ page = NoPage
    /\ carousel = NoCarousel
    /\ boot = NoBoot
    /\ NoReviews
    /\ InitDoc
    /\ NoDelete
    /\ content = Null
    /\ resolved = NotResolved
    /\ served = NotServed
    /\ previewFile = "none"
    /\ productionFile = "none"
    /\ indexFile = "none"
    /\ blobData = "none"
    /\ blobIndex = "none"
    /\ reqs = [r \in Requests |-> IdleRequest]
    /\ edited = FALSE
    /\ builds = <<>>
    /\ frags = <<>>
    /\ data = Null
    /\ html = ""
    /\ pc = "idle"
    /\ lastIndex = 0
    /\ call = 1
    /\ firstResult = [threw |-> FALSE, html |-> ""]

NextPage ==
    \/ \E t \in PageTrees : LoadPage(t)
    \/ SetupPage

SpecPage == InitS /\ [][NextPage]_vars

\* C34: once the paths are derived for a page compiled from a tree, the
\* k-th rendered item of each list (from 0) has the index k in its paths,
\* services.items[k].title and .description, standards.items[k] and
\* portfolio.images[k].src, and k is an index of the tree's array
C34_PositionalPaths ==
    page.set =>
        \A d \in page.derived :
            /\ d.idx = d.k
            /\ d.idx \in 0..(page.tree[d.list].n - 1)
            /\ d.path = EditPath(ArrayOf(d.list), d.k, d.field)

---------------------------------------------------------------------------
(* script.js: the testimonial carousel. carousel.n is                      *)
(* testimonialsData.length (and the number of .testimonial-item elements), *)
(* index is currentTestimonialIndex, active the items that carry the class *)
(* active. interval is what testimonialInterval refers to: "null", an      *)
(* interval that is "running", or one that was "cleared"; orphans counts   *)
(* the intervals that run and that no variable refers to any more          *)

\* the longest list of testimonials
MaxTestimonials == 3

\* the most running intervals without a reference that are followed
MaxOrphans == 2

\* (mutant) showTestimonial without the bounds check
showTestimonialUnchecked(c, index) ==
    IF c.n = 0 THEN c
    ELSE [c EXCEPT !.index = index, !.active = {i \in 0..(c.n - 1) : i = index}]

\* showTestimonial(index): nothing without items; an index below 0 becomes
\* the last one, an index of n or more becomes 0; the class active is
\* toggled on every item by `i === index`
showTestimonial(c, index) ==
    LET i == IF index < 0 THEN c.n - 1 ELSE IF index >= c.n THEN 0 ELSE index
    IN  IF c.n = 0 THEN c
        ELSE [c EXCEPT !.index = i, !.active = {j \in 0..(c.n - 1) : j = i}]

\* startTestimonialRotation(): with more than one testimonial a new interval
\* is created and testimonialInterval is overwritten with it; an interval it
\* referred to keeps running when it was not cleared before
startTestimonialRotation(c) ==
    IF c.n <= 1 THEN c
    ELSE [c EXCEPT !.interval = "running",
                   !.orphans = IF c.interval = "running" THEN @ + 1 ELSE @]

\* clearInterval(testimonialInterval) when it is not null
ClearRecorded(c) ==
    IF c.interval = "null" THEN c ELSE [c EXCEPT !.interval = "cleared"]

\* resetTestimonialRotation()
resetTestimonialRotation(c) == startTestimonialRotation(ClearRecorded(c))

\* stopTestimonialRotation()
stopTestimonialRotation(c) ==
    IF c.interval = "null" THEN c ELSE [c EXCEPT !.interval = "null"]

nextTestimonial(c) == resetTestimonialRotation(showTestimonial(c, c.index + 1))

prevTestimonial(c) == resetTestimonialRotation(showTestimonial(c, c.index - 1))

\* whether a step would lose the reference to one more running interval
\* than is followed
WithinOrphans(c) == c.orphans <= MaxOrphans

Happened(c, event) == [c EXCEPT !.last = [event |-> event, from |-> carousel.index]]

outsideScript == <<compileVars, publishVars, served, pathVars, docVars, deleteVars, reviewVars>>

\* renderTestimonials(testimonials), called once, when loadTestimonials has
\* its list (the fetched one or the fallback; never an empty one)
RenderTestimonials(n) ==
    /\ carousel.n = 0
    /\ carousel' = Happened(startTestimonialRotation(
                       [carousel EXCEPT !.n = n, !.index = 0, !.active = {0}]), "render")
    /\ UNCHANGED <<page, boot>>
    /\ UNCHANGED outsideScript

\* a click on #testimonial-next or a swipe to the left. renderTestimonials
\* hides the arrows of a single testimonial
NextTestimonial(how) ==
    /\ how = "click" => carousel.n # 1
    /\ WithinOrphans(nextTestimonial(carousel))
    /\ carousel' = Happened(nextTestimonial(carousel), "next")
    /\ UNCHANGED <<page, boot>>
    /\ UNCHANGED outsideScript

\* a click on #testimonial-prev or a swipe to the right
PrevTestimonial(how) ==
    /\ how = "click" => carousel.n # 1
    /\ WithinOrphans(prevTestimonial(carousel))
    /\ carousel' = Happened(prevTestimonial(carousel), "prev")
    /\ UNCHANGED <<page, boot>>
    /\ UNCHANGED outsideScript

\* the callback of a running interval: the one testimonialInterval refers
\* to, or one without a reference
TimerTick(recorded) ==
    /\ IF recorded THEN carousel.interval = "running" ELSE carousel.orphans > 0
    /\ WithinOrphans(nextTestimonial(carousel))
    /\ carousel' = Happened(nextTestimonial(carousel), "tick")
    /\ UNCHANGED <<page, boot>>
    /\ UNCHANGED outsideScript

\* mouseenter on #testimonials-container: stopTestimonialRotation
MouseEnter ==
    /\ ~carousel.hover
    /\ carousel' = Happened([stopTestimonialRotation(carousel) EXCEPT !.hover = TRUE],
                            "mouseenter")
    /\ UNCHANGED <<page, boot>>
    /\ UNCHANGED outsideScript

\* mouseleave on #testimonials-container: startTestimonialRotation
MouseLeave ==
    /\ carousel.hover
    /\ WithinOrphans(startTestimonialRotation(carousel))
    /\ carousel' = Happened([startTestimonialRotation(carousel) EXCEPT !.hover = FALSE],
                            "mouseleave")
    /\ UNCHANGED <<page, boot>>
    /\ UNCHANGED outsideScript

NextCarousel ==
    \/ \E n \in 1..MaxTestimonials : RenderTestimonials(n)
    \/ \E how \in {"click", "swipe"} : NextTestimonial(how)
    \/ \E how \in {"click", "swipe"} : PrevTestimonial(how)
    \/ \E recorded \in BOOLEAN : TimerTick(recorded)
    \/ MouseEnter
    \/ MouseLeave

SpecCarousel == InitS /\ [][NextCarousel]_vars

\* C37: once a non-empty list is rendered, currentTestimonialIndex is an
\* index of the list and the one active item is the item at that index;
\* next (a click, a swipe or a tick) goes to the following item and from the
\* last to the first, previous to the item before and from the first to the
\* last
C37_CarouselIndex ==
    carousel.n >= 1 =>
        /\ carousel.index \in 0..(carousel.n - 1)
        /\ carousel.active = {carousel.index}
        /\ carousel.last.event \in {"next", "tick"} =>
              carousel.index = (carousel.last.from + 1) % carousel.n
        /\ carousel.last.event = "prev" =>
              carousel.index = (carousel.last.from + carousel.n - 1) % carousel.n

\* C37 witness: previous from the first of three items has shown the last
C37_Witness ==
    /\ carousel.n = 3
    /\ carousel.last = [event |-> "prev", from |-> 0]
    /\ carousel.index = 2
    /\ carousel.active = {2}

\* C38: every running interval is the one testimonialInterval refers to
C38_OneTimer == carousel.orphans = 0

\* C39: while the pointer is over the container no interval runs, and no
\* tick has advanced the carousel
C39_PausedOnHover ==
    carousel.hover =>
        /\ carousel.interval # "running"
        /\ carousel.orphans = 0
        /\ carousel.last.event # "tick"

---------------------------------------------------------------------------
(* script.js: the start of the script. boot.pc is "idle" before the script *)
(* runs, "loading" while it waits for DOMContentLoaded, "armed" while a    *)
(* setTimeout(waitForImageBasePath, 10) is pending, "polling" when that    *)
(* timeout has expired and its callback is due, "done" after               *)
(* initializeImagePaths. boot.listening tells that the DOMContentLoaded    *)
(* listener of the carousel has run (loadTestimonials is called and the    *)
(* click and hover listeners are registered)                               *)

\* the values an inline script gives IMAGE_BASE_PATH
BasePaths == {<<>>, <<"i", "m", "g">>, <<"i", "m", "g", "/">>}

DownloadedImages ==
    <<"d", "o", "w", "n", "l", "o", "a", "d", "e", "d", "_", "i", "m", "a", "g", "e", "s">>

\* imageBasePath.toString().replace(/\/$/, '')
StripSlash(p) ==
    IF Len(p) > 0 /\ p[Len(p)] = "/" THEN SubSeq(p, 1, Len(p) - 1) ELSE p

\* initializeImagePaths(): the defined value, 'downloaded_images' when there
\* is none or it is empty, without a trailing slash
initializeImagePaths(b) ==
    LET imageBasePath == IF b.defined /\ b.path # <<>> THEN b.path ELSE DownloadedImages
    IN  [b EXCEPT !.pc = "done", !.calls = @ + 1, !.base = StripSlash(imageBasePath)]

\* waitForImageBasePath(): while neither window.IMAGE_BASE_PATH nor the
\* const IMAGE_BASE_PATH is defined, another timeout of 10 ms is set and
\* nothing else happens
waitForImageBasePath(b) ==
    IF ~b.defined THEN [b EXCEPT !.pc = "armed"] ELSE initializeImagePaths(b)

\* the script runs: with the document still loading it listens for
\* DOMContentLoaded, otherwise it calls waitForImageBasePath at once
ScriptRuns(loading) ==
    /\ boot.pc = "idle"
    /\ boot' = IF loading THEN [boot EXCEPT !.pc = "loading"] ELSE waitForImageBasePath(boot)
    /\ UNCHANGED <<page, carousel>>
    /\ UNCHANGED outsideScript

ScriptDOMContentLoaded ==
    /\ boot.pc = "loading"
    /\ boot' = [waitForImageBasePath(boot) EXCEPT !.listening = TRUE]
    /\ UNCHANGED <<page, carousel>>
    /\ UNCHANGED outsideScript

\* the 10 ms of a pending timeout pass
TimeoutExpires ==
    /\ boot.pc = "armed"
    /\ boot' = [boot EXCEPT !.pc = "polling"]
    /\ UNCHANGED <<page, carousel>>
    /\ UNCHANGED outsideScript

\* the callback of the timeout: waitForImageBasePath again
Poll ==
    /\ boot.pc = "polling"
    /\ boot' = waitForImageBasePath(boot)
    /\ UNCHANGED <<page, carousel>>
    /\ UNCHANGED outsideScript

\* another script of the page defines IMAGE_BASE_PATH (before this script
\* runs or later); a page need not have such a script
DefineBasePath(p) ==
    /\ ~boot.defined
    /\ boot' = [boot EXCEPT !.defined = TRUE, !.path = p]
    /\ UNCHANGED <<page, carousel>>
    /\ UNCHANGED outsideScript

NextBoot ==
    \/ \E loading \in BOOLEAN : ScriptRuns(loading)
    \/ ScriptDOMContentLoaded
    \/ TimeoutExpires
    \/ Poll
    \/ \E p \in BasePaths : DefineBasePath(p)

NextScript ==
    \/ NextBoot
    \/ boot.listening /\ NextCarousel

\* the browser runs the script, fires DOMContentLoaded, lets a pending
\* timeout expire and runs its callback; nothing obliges a page to define
\* IMAGE_BASE_PATH or a user to act
BrowserFairness ==
    /\ WF_vars(\E loading \in BOOLEAN : ScriptRuns(loading))
    /\ WF_vars(ScriptDOMContentLoaded)
    /\ WF_vars(TimeoutExpires)
    /\ WF_vars(Poll)

SpecScript == InitS /\ [][NextScript]_vars /\ BrowserFairness

\* C40: once the script waits for IMAGE_BASE_PATH, initializeImagePaths is
\* eventually called, and never more than once; when IMAGE_BASE_PATH was
\* not defined the base path is 'downloaded_images'
C40_ImagePathsInitialised ==
    /\ (boot.pc \in {"armed", "polling"}) ~> (boot.pc = "done")
    /\ [](boot.calls <= 1)
    /\ [](boot.pc = "done" /\ ~boot.defined => boot.base = DownloadedImages)

---------------------------------------------------------------------------
(* More claims about the template compiler (specification Spec)            *)

\* the sections of the template all hold the plain content OLD, and the tree
\* has the plain markup <p>NEW</p> at about.customHtml
PlainOverride ==
    /\ KindsAre({"text", "scalar", "section"})
    /\ \E k \in 1..Len(frags) : frags[k].kind = "section"
    /\ \A k \in 1..Len(frags) : frags[k].kind = "section" => frags[k].inner = "OLD"
    /\ AboutHtml = Str("<p>NEW</p>")

\* C22: the override of the about section is applied to the first <section>
\* with id about and class about-section, whether its tag has the id before
\* or after the class and whatever else the tag carries
C22_AttributeOrderTolerated ==
    (pc = "done" /\ PlainOverride) => html = Overridden(1, FALSE)

\* the each-blocks of the template are all closed and all over arrays
BlocksOverArrays ==
    /\ KindsAre({"text", "scalar", "each", "section"})
    /\ \A k \in 1..Len(frags) : frags[k].kind = "each" => IsArrayPath(frags[k].path)

\* C25: after the each-loop of a template whose blocks are all closed and
\* over arrays, no {{#each or {{/each}} marker is left in the document,
\* wherever the blocks stand and whatever the blocks before them rendered
C25_EveryBlockExpanded ==
    (AfterEachLoop /\ BlocksOverArrays) =>
        ~Contains(html, "{{#each") /\ ~Contains(html, "{{/each}}")

\* what the claim says {{this.field}} becomes for an element: the value of
\* the field where the element has it, nothing otherwise
FieldAsClaimed(item, field) ==
    IF item.t = "obj" /\ field \in DOMAIN item.v THEN ToStr(item.v[field]) ELSE ""

RECURSIVE FieldsAsClaimed(_, _, _)
FieldsAsClaimed(s, item, from) ==
    LET i == IndexOfFrom(s, "{{this.", from)
        e == ThisPropMatchEnd(s, i)
    IN  IF i = 0 THEN Sub(s, from, Len(s))
        ELSE IF e = 0 THEN Sub(s, from, i) \o FieldsAsClaimed(s, item, i + 1)
        ELSE Sub(s, from, i - 1)
             \o FieldAsClaimed(item, Trim(Sub(s, i + 7, e - 3)))
             \o FieldsAsClaimed(s, item, e)

\* the rendering of the elements of q from the i-th on, as the claim has it
RECURSIVE ItemsAsClaimed(_, _, _)
ItemsAsClaimed(block, q, i) ==
    IF i > Len(q) THEN ""
    ELSE ReplaceThis(FieldsAsClaimed(block, q[i], 1), q[i], 1)
         \o ItemsAsClaimed(block, q, i + 1)

\* C26: a template that is one each-block over an array compiles, when it
\* compiles, to the renderings of the elements with {{this.field}} as the
\* value of the field (0 and false included, nothing when absent, never
\* "undefined") and {{this}} as the element when it is a string, else nothing
C26_ItemFields ==
    ( /\ AfterEachLoop
      /\ Len(frags) = 1
      /\ frags[1].kind = "each"
      /\ IsArrayPath(frags[1].path) )
    => /\ html = ItemsAsClaimed(frags[1].block, getValue(data, frags[1].path).v, 1)
       /\ ~Contains(html, "undefined")

\* C27: when buildHTML has returned for a template and a tree, build.js
\* writes, for the same template and data, exactly the document it returned;
\* when buildHTML threw, build.js ends with an error and writes nothing
C27_PreviewEqualsBuild ==
    /\ pc = "done" => BuildJs(Template, data) = [threw |-> FALSE, html |-> html]
    /\ pc = "threw" => BuildJs(Template, data).threw

\* C27 witness: a compile that changed the document in all three passes has
\* returned, and build.js gives that document
C27_Witness ==
    /\ pc = "done"
    /\ \E k \in 1..Len(frags) : frags[k].kind = "each" /\ IsArrayPath(frags[k].path)
    /\ \E k \in 1..Len(frags) : frags[k].kind = "section"
    /\ Truthy(getValue(data, "about.customHtml"))
    /\ html # Template
    /\ Contains(html, "NEW")
    /\ BuildJs(Template, data).html = html

---------------------------------------------------------------------------
(* More claims about the data routes (specification SpecData)              *)

\* the production snapshot: data.json, and the data.json blob when there is
\* no such file
ProductionSnapshot == IF productionFile # "none" THEN productionFile ELSE blobData

\* C32: from a successful POST /api/data/reset until the next PUT /api/data
\* the preview file holds what the production snapshot holds
C32_ResetDiscardsEdits == served.sinceReset => previewFile = ProductionSnapshot

\* C33: a GET /api/data or GET /api/preview leaves a preview file that is
\* there as it is, whatever it holds; when there is none the file is at
\* most created from data.json or from the blob
C33_ReadsKeepPreview ==
    [][served'.route \in {"data", "preview"} =>
          /\ previewFile # "none" => previewFile' = previewFile
          /\ previewFile = "none" => previewFile' \in {"none", productionFile, blobData}]_vars

---------------------------------------------------------------------------
(* More claims about the publish pipeline (specification SpecPublish)      *)

\* the run of request r enters stage p in this step
Enters(r, p) == reqs[r].pc # p /\ reqs'[r].pc = p

\* C28: the stages of a publish run follow each other in the order promote,
\* build, upload of index.html: a run starts its data.json upload and then
\* its build only once it has written the preview it read to data.json; it
\* reads and uploads index.html only when the build it waited for has
\* written it; and the index.html blob only ever becomes what such a run
\* read
C28_StageOrder ==
    [][/\ \A r \in Requests :
            /\ Enters(r, "uploadData") =>
                  /\ reqs[r].pc = "idle"
                  /\ reqs'[r].dataString = previewFile
                  /\ productionFile' = reqs'[r].dataString
            /\ Enters(r, "build") =>
                  /\ reqs[r].pc = "uploadData"
                  /\ reqs[r].dataString # "none"
                  /\ reqs'[r].htmlContent = "none"
            /\ Enters(r, "uploadIndex") =>
                  /\ reqs[r].pc = "build"
                  /\ ~BuildScript(productionFile).threw
                  /\ indexFile' = BuildScript(productionFile).html
                  /\ reqs'[r].htmlContent = indexFile'
            /\ "index.html" \in reqs'[r].uploads \ reqs[r].uploads =>
                  Enters(r, "uploadIndex")
       /\ blobIndex' # blobIndex =>
             \E r \in Requests : /\ reqs[r].pc = "uploadIndex"
                                 /\ blobIndex' = reqs[r].htmlContent]_vars

\* C28 witness: a run went through every stage after a failed data.json
\* upload and published content other than what the site started with
C28_Witness ==
    \E r \in Requests :
        /\ reqs[r].outcome = "ok"
        /\ ~reqs[r].dataOk
        /\ reqs[r].dataString # "v0"
        /\ blobIndex = BuildScript(reqs[r].dataString).html

\* C29: a run whose promotion failed is over in that step, with a failure
\* answer and without a call of an upload; nothing but the answer changes
\* in that step, so data.json, index.html and the blobs are as they were
\* (when the preview could not be read and when data.json could not be
\* written); and the run takes no step afterwards
C29_PromoteFailureAborts ==
    [][\A r \in Requests :
          /\ reqs'[r].outcome = "promoteFailed" =>
                /\ reqs'[r].pc = "done"
                /\ reqs'[r].status = 500
                /\ reqs'[r].uploads = {}
                /\ reqs'[r].htmlContent = "none"
          /\ (reqs[r].outcome # "promoteFailed" /\ reqs'[r].outcome = "promoteFailed") =>
                /\ reqs[r].pc = "idle"
                /\ <<productionFile, indexFile, blobData, blobIndex>>'
                      = <<productionFile, indexFile, blobData, blobIndex>>
          /\ reqs[r].outcome = "promoteFailed" => reqs'[r] = reqs[r]]_vars

\* C29 witness: a run failed because there was no preview to read, a later
\* run failed because data.json could not be written, and data.json is what
\* it was at the start
C29_Witness ==
    /\ reqs[1].outcome = "promoteFailed"
    /\ reqs[1].dataString = "none"
    /\ reqs[2].outcome = "promoteFailed"
    /\ reqs[2].dataString \notin {"none", "v0"}
    /\ productionFile = "v0"

\* C30: a publish run answers success only if each upload it called
\* succeeded: the data.json upload as well as the index.html upload
C30_UploadFailureReported ==
    \A r \in Requests :
        reqs[r].status = 200 =>
            /\ reqs[r].dataOk
            /\ reqs[r].outcome = "ok"

\* C31: the index.html a successful publish run uploaded is what build.js
\* makes of the content that this run promoted, whatever other requests
\* were handled between its awaited steps
C31_UploadedIndexIsOfPromoted ==
    \A r \in Requests :
        reqs[r].outcome = "ok" =>
            reqs[r].htmlContent = BuildScript(reqs[r].dataString).html

---------------------------------------------------------------------------
(* More claims about the instrumented document (specification SpecDoc)     *)

\* the last elementEdited message for element e among the messages
LastEdited(out, e) ==
    LET ks == {k \in 1..Len(out) : out[k].type = "elementEdited" /\ out[k].path = e}
    IN  out[CHOOSE k \in ks : \A j \in ks : j <= k]

\* C23: right after an event posted elementEdited for a path, the element of
\* the page with that path shows the new value of the message, whether or
\* not toggleEditMode messages arrived while the modal was open
C23_DocumentShowsConfirmedEdit ==
    \A e \in TextEls :
        (\E k \in 1..Len(last.out) :
            last.out[k].type = "elementEdited" /\ last.out[k].path = e)
        => doc.text[e] = LastEdited(last.out, e).newValue

\* the modals that are open
OpenModals == {m \in 1..Len(modals) : modals[m].inBody}

\* C24: at most one text-edit modal is open, and while one is open no step
\* opens another modal, starts a delete or starts an Edit HTML
C24_OneInteraction ==
    [][/\ Cardinality({m \in 1..Len(modals') : modals'[m].inBody}) <= 1
       /\ OpenModals # {} =>
             /\ last'.opened = 0
             /\ last'.event \notin {"delete", "editHtml"}]_vars

\* C35: an elementEdited message is posted only in a step that finds the
\* modal it comes from open, with a text other than the original, and that
\* closes it; no modal posts a second one, and no step changes the element
\* of a modal that is not open
C35_OneMessagePerModal ==
    [][\A k \in 1..Len(last'.out) :
          last'.out[k].type = "elementEdited" =>
              LET m == last'.out[k].newValue
              IN  /\ modals[m].inBody
                  /\ ~modals[m].emitted
                  /\ modals[m].typed
                  /\ ~modals'[m].inBody]_vars

\* C36: every message to the parent window is posted by an event that is
\* handled while editMode is true, and editMode changes only when a
\* toggleEditMode message is handled
C36_SilentWhenOff ==
    [][/\ last'.out # <<>> => editMode
       /\ editMode' # editMode => last'.event = "toggle"]_vars

=============================================================================
